---- MODULE Spec2Model ----
(***************************************************************************)
(* rootweb: the TerminalWS session (internal/router/handler/handler.go)    *)
(* and the TaskManager supervisor (pkg/task/task.go) as state machines.    *)
(*                                                                         *)
(* TerminalSpec runs one TerminalWS call: the handler/coordinator routine, *)
(* the outbound pump (goroutine A), the inbound pump (goroutine B), and    *)
(* the environment (the websocket peer and the child shell).               *)
(* TaskSpec runs one TaskManager under arbitrary callers and task bodies.  *)
(***************************************************************************)
EXTENDS Integers, Sequences, FiniteSets, TLC

\* ------------------------------------------------------------------ bounds

\* frames the peer sends during one session
MaxFrames == 2
\* chunks the child shell writes to the pty during one session
MaxChunks == 2
\* payloads the pty input buffer holds before a write to the pty blocks
PtyCap == 1
\* replaced taskUnits whose body has not ended, at once
MaxOrphans == 1
\* the largest timeout, in time units, a caller passes to the TaskManager
MaxTimeout == 1
\* goroutines of the TaskManager that have been launched and have not ended
MaxLive == 2
\* goroutines that call SendIpcEvt
MaxSenders == 2
\* calls of SendIpcEvt that get past the flag check, in all
MaxEvents == 18
\* TerminalWS sessions open at once
MaxSessions == 2
\* ordinary requests in flight at once
MaxRequests == 1
\* the latest time, in minutes, the router's clock reaches
MaxNow == 64

\* ------------------------------------------------- TerminalWS: constants

\* pty.StartWithSize(cmd, &pty.Winsize{Cols: 120, Rows: 30})
InitCols == 120
InitRows == 30

\* websocket.BinaryMessage / websocket.TextMessage frames the peer may send.
\* A text frame is given by what json.Unmarshal makes of it: ok = FALSE is
\* malformed JSON, otherwise the wsMsg fields.
wsMsg(ok, type, cols, rows) ==
  [ok |-> ok, MsgType |-> type, Cols |-> cols, Rows |-> rows]

BinaryFrame(payload) == [msgType |-> "binary", msg |-> payload]
TextFrame(m) == [msgType |-> "text", msg |-> m]

\* The frames the peer may send as its k-th frame.  A non-empty binary frame
\* carries the byte k, so that payloads tell the frames apart.
PeerFrames(k) ==
  { BinaryFrame(<<k>>), BinaryFrame(<<>>),
    TextFrame(wsMsg(TRUE, "resize", 100, 40)),
    TextFrame(wsMsg(TRUE, "resize", 65536, 40)),
    TextFrame(wsMsg(TRUE, "resize", 0, 40)),
    TextFrame(wsMsg(TRUE, "resize", 100, -1)),
    TextFrame(wsMsg(TRUE, "ping", 100, 40)),
    TextFrame(wsMsg(FALSE, "", 0, 0)) }

NoMsg == [msgType |-> "none", msg |-> <<>>]

\* conn.WriteMessage(websocket.TextMessage, []byte("failed to open pty"))
NoticeFrame == [msgType |-> "text", msg |-> "failed to open pty"]

VARIABLES
  \* ---- TerminalWS
  hpc,        \* position of the handler / coordinating routine
  conn,       \* "none" | "open" | "closed": the server's websocket connection
  peer,       \* "open" | "closed": the remote end (closed: gone or stalled for good)
  inq,        \* frames sent by the peer and not yet returned by conn.ReadMessage
  sent,       \* number of frames the peer has sent
  wsOut,      \* frames written to the connection, in order
  pty,        \* "none" | "open" | "closed": ptmx
  ptyIn,      \* payloads written to ptmx and not yet read by the child
  ptyOut,     \* chunks written by the child and not yet read from ptmx
  made,       \* number of chunks the child has written
  ptySize,    \* <<cols, rows>> of the pty
  child,      \* "none" | "running" | "exited" (unwaited) | "reaped"
  killed,     \* cmd.Process.Kill() has been called
  stopCloses, \* how many times close(stopCh) has run
  onceDone,   \* sync.Once of stop() has fired
  done1,      \* close(done1) has run
  done2,      \* close(done2) has run
  pcA,        \* position of the outbound pump (goroutine A)
  bufA,       \* [chunk, rerr]: buf[:n] and rerr of goroutine A's last ptmx.Read
  pcB,        \* position of the inbound pump (goroutine B)
  msgB,       \* the frame goroutine B is handling
  got,        \* payloads of the binary frames conn.ReadMessage has returned, joined
  wrote,      \* the bytes ptmx.Write has written, in order
  lastB,      \* the frame goroutine B has dealt with in the step just taken
  \* ---- TaskManager
  tasks,      \* tm.tasks: name -> taskUnit
  orphans,    \* replaced taskUnits whose body has not ended: kind -> number
  parentWG,   \* tm.parentWG's counter
  late,       \* goroutines done with their taskUnit and before tm.parentWG.Done()
  op,         \* the call that holds tm.mu and is waiting in WaitGroupWithTimeout
  ret,        \* the call that returned last, with its result
  panicHandler, \* tm.panicHandler: "nil" | "set"
  parentCtx,  \* tm.parentCtx: "live" | "cancelled"
  boundary,   \* what the step just taken did at a task's failure boundary
  relaunched, \* the names the step just taken launched on a taskUnit that had run before
  \* ---- ipc
  ipcChan,    \* number of events buffered in IpcMgr.ipcChan
  chanClosed, \* close(IpcMgr.ipcChan) has run
  isChanEnabled, \* IpcMgr.isChanEnabled
  mu,         \* IpcMgr.mu: [readers, writer, pending]
  spc,        \* per caller of SendIpcEvt: "idle" | "send" (holds the read lock)
  sres,       \* per caller: what its last SendIpcEvt returned
  runPc,      \* position of ipc.Run
  cons,       \* position of the consumer goroutine of ipc.Run
  ctxDone,    \* the context passed to ipc.Run is cancelled
  ipcPanic,   \* a run-time panic raised by a channel operation
  accepted,   \* number of SendIpcEvt calls that returned nil
  signals,    \* number of proc.SendSignal calls the consumer has made
  \* ---- the process: run, finalize, server.Run
  mpc,        \* position of run(): "start" ... "sigwait", "finalize", "exited" | "failed"
  pidFile,    \* "absent" | "written": the file at config.PidFilePath
  sigChan,    \* a signal is buffered in sigChan (capacity 1)
  taskCtx,    \* "live" | "cancelled": the contexts ShutdownAll cancels
  srv,        \* server.Run: "none" | "starting" | "failed" | "serving" | "nolisten"
              \*   | "shutdown" | "returned"
  srvSince,   \* the clock when server.Shutdown was called
  relay,      \* ipc.Run: "none" | "running" | "returned"
  relayEvt,   \* a Shutdown event is queued in the relay
  shutdownOnce, \* sync.Once of server.Run's shutdown() has fired
  ptySessions,  \* TerminalWS sessions with a live child shell and running pumps
  requests,   \* ordinary requests in flight on connections the server tracks
  clock,      \* seconds since finalize() began
  \* ---- the router's middlewares
  AdminExists, \* middleware.AdminExists
  now,        \* time.Now(), in minutes
  cookie,     \* the session the client's cookie carries
  served,     \* the request dealt with in the step just taken: what it carried, where it got
  lastAuth    \* when the logged-in session last passed the guard or logged in (0: none)

termVars ==
  << hpc, conn, peer, inq, sent, wsOut, pty, ptyIn, ptyOut, made, ptySize,
     child, killed, stopCloses, onceDone, done1, done2, pcA, bufA, pcB, msgB,
     got, wrote, lastB >>

taskVars ==
  << tasks, orphans, parentWG, late, op, ret, panicHandler, parentCtx, boundary,
     relaunched >>

ipcVars ==
  << ipcChan, chanClosed, isChanEnabled, mu, spc, sres, runPc, cons, ctxDone,
     ipcPanic, accepted, signals >>

procVars ==
  << mpc, pidFile, sigChan, taskCtx, srv, srvSince, relay, relayEvt,
     shutdownOnce, ptySessions, requests, clock >>

authVars == << AdminExists, now, cookie, served, lastAuth >>

vars == << termVars, taskVars, ipcVars, procVars, authVars >>

\* ---------------------------------------------------- TerminalWS: Init

TerminalInit ==
  /\ hpc = "upgrade"
  /\ conn = "none"
  /\ peer = "open"
  /\ inq = <<>>
  /\ sent = 0
  /\ wsOut = <<>>
  /\ pty = "none"
  /\ ptyIn = <<>>
  /\ ptyOut = <<>>
  /\ made = 0
  /\ ptySize = <<0, 0>>
  /\ child = "none"
  /\ killed = FALSE
  /\ stopCloses = 0
  /\ onceDone = FALSE
  /\ done1 = FALSE
  /\ done2 = FALSE
  /\ pcA = "idle"
  /\ bufA = [chunk |-> <<>>, rerr |-> FALSE]
  /\ pcB = "idle"
  /\ msgB = NoMsg
  /\ got = <<>>
  /\ wrote = <<>>
  /\ lastB = NoMsg

\* ------------------------------------------- TerminalWS: handler prologue

\* conn, err := upgrader.Upgrade(...); if err != nil { return }
Upgrade ==
  /\ hpc = "upgrade"
  /\ \/ /\ conn' = "open"
        /\ hpc' = "spawn"
     \/ /\ hpc' = "returned"
        /\ UNCHANGED conn
  /\ UNCHANGED << taskVars, ipcVars, procVars, authVars >>
  /\ UNCHANGED << got, wrote >>
  /\ lastB' = NoMsg
  /\ UNCHANGED << peer, inq, sent, wsOut, pty, ptyIn, ptyOut, made, ptySize,
                  child, killed, stopCloses, onceDone, done1, done2,
                  pcA, bufA, pcB, msgB >>

\* A handler that returns on a failed spawn without closing the connection.
SpawnFailureKeepsConn ==
  /\ hpc = "spawn"
  /\ \/ /\ pty' = "open"
        /\ child' = "running"
        /\ ptySize' = <<InitCols, InitRows>>
        /\ pcA' = "read"
        /\ pcB' = "read"
        /\ hpc' = "waitStop"
        /\ UNCHANGED << conn, wsOut >>
     \/ /\ wsOut' = IF peer = "open"
                      THEN Append(wsOut, NoticeFrame)
                      ELSE wsOut
        /\ conn' = conn
        /\ hpc' = "returned"
        /\ UNCHANGED << pty, child, ptySize, pcA, pcB >>
  /\ UNCHANGED << taskVars, ipcVars, procVars, authVars >>
  /\ UNCHANGED << got, wrote >>
  /\ lastB' = NoMsg
  /\ UNCHANGED << peer, inq, sent, ptyIn, ptyOut, made, killed, stopCloses,
                  onceDone, done1, done2, bufA, msgB >>

\* ptmx, err := pty.StartWithSize(cmd, ...): on error one text notice is
\* written (best effort), the connection is closed and the handler returns;
\* otherwise the channels are made and both pump goroutines are started.
Spawn ==
  /\ hpc = "spawn"
  /\ \/ /\ pty' = "open"
        /\ child' = "running"
        /\ ptySize' = <<InitCols, InitRows>>
        /\ pcA' = "read"
        /\ pcB' = "read"
        /\ hpc' = "waitStop"
        /\ UNCHANGED << conn, wsOut >>
     \/ /\ wsOut' = IF peer = "open"
                      THEN Append(wsOut, NoticeFrame)
                      ELSE wsOut
        /\ conn' = "closed"
        /\ hpc' = "returned"
        /\ UNCHANGED << pty, child, ptySize, pcA, pcB >>
  /\ UNCHANGED << taskVars, ipcVars, procVars, authVars >>
  /\ UNCHANGED << got, wrote >>
  /\ lastB' = NoMsg
  /\ UNCHANGED << peer, inq, sent, ptyIn, ptyOut, made, killed, stopCloses,
                  onceDone, done1, done2, bufA, msgB >>

\* ------------------------------------------------- TerminalWS: stop()

\* A stop() that closes stopCh on every call (no sync.Once).
stopNoOnce == [once |-> TRUE, closes |-> stopCloses + 1]

\* stop := func() { once.Do(func() { close(stopCh) }) }
\* The values of (onceDone, stopCloses) after one call of stop().
stop == [once |-> TRUE,
         closes |-> IF onceDone THEN stopCloses ELSE stopCloses + 1]

\* ------------------------------- TerminalWS: goroutine A (pty -> websocket)

\* n, rerr := ptmx.Read(buf).  It blocks while the pty is open, the child
\* holds the other end and has written nothing.  It returns a chunk when one
\* is buffered (alone, or together with an error when the other end is gone),
\* and an error with n = 0 when the pty has been closed or the child has
\* exited and nothing is buffered.
ARead ==
  /\ pcA = "read"
  /\ \/ /\ pty = "open"
        /\ ptyOut # <<>>
        /\ ptyOut' = Tail(ptyOut)
        /\ \E e \in {FALSE, child # "running"} :
             bufA' = [chunk |-> <<Head(ptyOut)>>, rerr |-> e]
        /\ pcA' = "write"
     \/ /\ \/ pty = "closed"
           \/ child # "running" /\ ptyOut = <<>>
        /\ bufA' = [chunk |-> <<>>, rerr |-> TRUE]
        /\ pcA' = "stop"
        /\ UNCHANGED ptyOut
  /\ UNCHANGED << taskVars, ipcVars, procVars, authVars >>
  /\ UNCHANGED << got, wrote >>
  /\ lastB' = NoMsg
  /\ UNCHANGED << hpc, conn, peer, inq, sent, wsOut, pty, ptyIn, made, ptySize,
                  child, killed, stopCloses, onceDone, done1, done2, pcB, msgB >>

\* An outbound pump that returns on a read error without sending the chunk
\* that came with it.
AWriteDropsLast ==
  /\ pcA = "write"
  /\ \/ /\ conn = "open"
        /\ peer = "open"
        /\ wsOut' = IF bufA.rerr
                      THEN wsOut
                      ELSE Append(wsOut, BinaryFrame(bufA.chunk))
        /\ pcA' = IF bufA.rerr THEN "stop" ELSE "read"
     \/ /\ conn # "open" \/ peer # "open"
        /\ pcA' = "stop"
        /\ UNCHANGED wsOut
  /\ UNCHANGED << taskVars, ipcVars, procVars, authVars >>
  /\ UNCHANGED << got, wrote >>
  /\ lastB' = NoMsg
  /\ UNCHANGED << hpc, conn, peer, inq, sent, pty, ptyIn, ptyOut, made, ptySize,
                  child, killed, stopCloses, onceDone, done1, done2,
                  bufA, pcB, msgB >>

\* if n > 0 { SetWriteDeadline(now + 5s); WriteMessage(BinaryMessage, buf[:n]) }
\* if rerr != nil { return }
\* The write fails when the connection was closed or the peer is gone or does
\* not read before the deadline; gorilla's SetWriteDeadline only stores the
\* deadline.
AWrite ==
  /\ pcA = "write"
  /\ \/ /\ conn = "open"
        /\ peer = "open"
        /\ wsOut' = Append(wsOut, BinaryFrame(bufA.chunk))
        /\ pcA' = IF bufA.rerr THEN "stop" ELSE "read"
     \/ /\ conn # "open" \/ peer # "open"
        /\ pcA' = "stop"
        /\ UNCHANGED wsOut
  /\ UNCHANGED << taskVars, ipcVars, procVars, authVars >>
  /\ UNCHANGED << got, wrote >>
  /\ lastB' = NoMsg
  /\ UNCHANGED << hpc, conn, peer, inq, sent, pty, ptyIn, ptyOut, made, ptySize,
                  child, killed, stopCloses, onceDone, done1, done2,
                  bufA, pcB, msgB >>

\* defer stop()
AStop ==
  /\ pcA = "stop"
  /\ onceDone' = stop.once
  /\ stopCloses' = stop.closes
  /\ pcA' = "close"
  /\ UNCHANGED << taskVars, ipcVars, procVars, authVars >>
  /\ UNCHANGED << got, wrote >>
  /\ lastB' = NoMsg
  /\ UNCHANGED << hpc, conn, peer, inq, sent, wsOut, pty, ptyIn, ptyOut, made,
                  ptySize, child, killed, done1, done2, bufA, pcB, msgB >>

\* defer close(done1)
AClose ==
  /\ pcA = "close"
  /\ done1' = TRUE
  /\ pcA' = "done"
  /\ UNCHANGED << taskVars, ipcVars, procVars, authVars >>
  /\ UNCHANGED << got, wrote >>
  /\ lastB' = NoMsg
  /\ UNCHANGED << hpc, conn, peer, inq, sent, wsOut, pty, ptyIn, ptyOut, made,
                  ptySize, child, killed, stopCloses, onceDone, done2,
                  bufA, pcB, msgB >>

\* ------------------------------- TerminalWS: goroutine B (websocket -> pty)

\* msgType, msg, err := conn.ReadMessage(); if err != nil { return }
\* It blocks while the connection is open and no frame has arrived; it fails
\* once the connection was closed locally, or the peer is gone and every
\* frame it sent has been read.
BRead ==
  /\ pcB = "read"
  /\ \/ /\ conn = "open"
        /\ inq # <<>>
        /\ msgB' = Head(inq)
        /\ inq' = Tail(inq)
        /\ got' = IF Head(inq).msgType = "binary"
                    THEN got \o Head(inq).msg
                    ELSE got
        /\ pcB' = "handle"
     \/ /\ \/ conn = "closed"
           \/ peer = "closed" /\ inq = <<>>
        /\ pcB' = "stop"
        /\ UNCHANGED << msgB, inq, got >>
  /\ UNCHANGED << taskVars, ipcVars, procVars, authVars >>
  /\ UNCHANGED wrote
  /\ lastB' = NoMsg
  /\ UNCHANGED << hpc, conn, peer, sent, wsOut, pty, ptyIn, ptyOut, made,
                  ptySize, child, killed, stopCloses, onceDone, done1, done2,
                  pcA, bufA >>

\* The size pty.Setsize applies for a wsMsg: Cols: uint16(r.Cols), Rows: uint16(r.Rows)
uint16(x) == x % 65536

\* An inbound pump that hands the pty each payload ahead of what it wrote
\* before.
BWritePtyNewestFirst ==
  /\ pcB = "handle"
  /\ msgB.msgType = "binary"
  /\ Len(msgB.msg) > 0
  /\ \/ /\ pty = "open"
        /\ child = "running"
        /\ Len(ptyIn) < PtyCap
        /\ ptyIn' = Append(ptyIn, msgB.msg)
        /\ wrote' = msgB.msg \o wrote
        /\ pcB' = "read"
     \/ /\ pty # "open" \/ child # "running"
        /\ pcB' = "stop"
        /\ UNCHANGED << ptyIn, wrote >>
  /\ msgB' = NoMsg
  /\ lastB' = msgB
  /\ UNCHANGED << taskVars, ipcVars, procVars, authVars >>
  /\ UNCHANGED got
  /\ UNCHANGED << hpc, conn, peer, inq, sent, wsOut, pty, ptyOut, made, ptySize,
                  child, killed, stopCloses, onceDone, done1, done2, pcA, bufA >>

\* A binary frame with len(msg) > 0: ptmx.Write(msg).  The write blocks while
\* the pty input buffer is full and the child does not read; it fails when the
\* pty is closed or the child has exited.
BWritePty ==
  /\ pcB = "handle"
  /\ msgB.msgType = "binary"
  /\ Len(msgB.msg) > 0
  /\ \/ /\ pty = "open"
        /\ child = "running"
        /\ Len(ptyIn) < PtyCap
        /\ ptyIn' = Append(ptyIn, msgB.msg)
        /\ wrote' = wrote \o msgB.msg
        /\ pcB' = "read"
     \/ /\ pty # "open" \/ child # "running"
        /\ pcB' = "stop"
        /\ UNCHANGED << ptyIn, wrote >>
  /\ msgB' = NoMsg
  /\ lastB' = msgB
  /\ UNCHANGED << taskVars, ipcVars, procVars, authVars >>
  /\ UNCHANGED got
  /\ UNCHANGED << hpc, conn, peer, inq, sent, wsOut, pty, ptyOut, made, ptySize,
                  child, killed, stopCloses, onceDone, done1, done2, pcA, bufA >>

\* An inbound pump that returns when a text frame does not parse or carries
\* a type it does not know.
BControlStrict ==
  /\ pcB = "handle"
  /\ \/ msgB.msgType = "binary" /\ Len(msgB.msg) = 0
     \/ msgB.msgType = "text"
  /\ ptySize' =
       IF /\ msgB.msgType = "text"
          /\ msgB.msg.ok
          /\ msgB.msg.MsgType = "resize"
          /\ msgB.msg.Cols > 0
          /\ msgB.msg.Rows > 0
          /\ pty = "open"
       THEN << uint16(msgB.msg.Cols), uint16(msgB.msg.Rows) >>
       ELSE ptySize
  /\ pcB' = IF /\ msgB.msgType = "text"
               /\ (~msgB.msg.ok \/ msgB.msg.MsgType # "resize")
              THEN "stop"
              ELSE "read"
  /\ msgB' = NoMsg
  /\ UNCHANGED << taskVars, ipcVars, procVars, authVars >>
  /\ UNCHANGED << got, wrote >>
  /\ lastB' = msgB
  /\ UNCHANGED << hpc, conn, peer, inq, sent, wsOut, pty, ptyIn, ptyOut, made,
                  child, killed, stopCloses, onceDone, done1, done2, pcA, bufA >>

\* An empty binary frame, or a text frame: json.Unmarshal; on error continue;
\* if r.MsgType == "resize" && r.Cols > 0 && r.Rows > 0 { pty.Setsize(...) }
\* (the result of Setsize is dropped: on a closed pty it changes nothing).
BControl ==
  /\ pcB = "handle"
  /\ \/ msgB.msgType = "binary" /\ Len(msgB.msg) = 0
     \/ msgB.msgType = "text"
  /\ ptySize' =
       IF /\ msgB.msgType = "text"
          /\ msgB.msg.ok
          /\ msgB.msg.MsgType = "resize"
          /\ msgB.msg.Cols > 0
          /\ msgB.msg.Rows > 0
          /\ pty = "open"
       THEN << uint16(msgB.msg.Cols), uint16(msgB.msg.Rows) >>
       ELSE ptySize
  /\ pcB' = "read"
  /\ msgB' = NoMsg
  /\ UNCHANGED << taskVars, ipcVars, procVars, authVars >>
  /\ UNCHANGED << got, wrote >>
  /\ lastB' = msgB
  /\ UNCHANGED << hpc, conn, peer, inq, sent, wsOut, pty, ptyIn, ptyOut, made,
                  child, killed, stopCloses, onceDone, done1, done2, pcA, bufA >>

\* defer stop()
BStop ==
  /\ pcB = "stop"
  /\ onceDone' = stop.once
  /\ stopCloses' = stop.closes
  /\ pcB' = "close"
  /\ UNCHANGED << taskVars, ipcVars, procVars, authVars >>
  /\ UNCHANGED << got, wrote >>
  /\ lastB' = NoMsg
  /\ UNCHANGED << hpc, conn, peer, inq, sent, wsOut, pty, ptyIn, ptyOut, made,
                  ptySize, child, killed, done1, done2, pcA, bufA, msgB >>

\* An inbound pump that closes the connection itself when it ends.
BCloseClosesConn ==
  /\ pcB = "close"
  /\ done2' = TRUE
  /\ conn' = "closed"
  /\ pcB' = "done"
  /\ UNCHANGED << taskVars, ipcVars, procVars, authVars >>
  /\ UNCHANGED << got, wrote >>
  /\ lastB' = NoMsg
  /\ UNCHANGED << hpc, peer, inq, sent, wsOut, pty, ptyIn, ptyOut, made,
                  ptySize, child, killed, stopCloses, onceDone, done1,
                  pcA, bufA, msgB >>

\* defer close(done2)
BClose ==
  /\ pcB = "close"
  /\ done2' = TRUE
  /\ pcB' = "done"
  /\ UNCHANGED << taskVars, ipcVars, procVars, authVars >>
  /\ UNCHANGED << got, wrote >>
  /\ lastB' = NoMsg
  /\ UNCHANGED << hpc, conn, peer, inq, sent, wsOut, pty, ptyIn, ptyOut, made,
                  ptySize, child, killed, stopCloses, onceDone, done1,
                  pcA, bufA, msgB >>

\* --------------------------------- TerminalWS: the coordinating routine

\* <-stopCh
CoordStopped ==
  /\ hpc = "waitStop"
  /\ stopCloses > 0
  /\ hpc' = "closeConn"
  /\ UNCHANGED << taskVars, ipcVars, procVars, authVars >>
  /\ UNCHANGED << got, wrote >>
  /\ lastB' = NoMsg
  /\ UNCHANGED << conn, peer, inq, sent, wsOut, pty, ptyIn, ptyOut, made,
                  ptySize, child, killed, stopCloses, onceDone, done1, done2,
                  pcA, bufA, pcB, msgB >>

\* conn.Close()
CoordCloseConn ==
  /\ hpc = "closeConn"
  /\ conn' = "closed"
  /\ hpc' = "waitDone2"
  /\ UNCHANGED << taskVars, ipcVars, procVars, authVars >>
  /\ UNCHANGED << got, wrote >>
  /\ lastB' = NoMsg
  /\ UNCHANGED << peer, inq, sent, wsOut, pty, ptyIn, ptyOut, made, ptySize,
                  child, killed, stopCloses, onceDone, done1, done2,
                  pcA, bufA, pcB, msgB >>

\* A coordinator that does not wait for the inbound pump before it goes on.
CoordWaitDone2NoWait ==
  /\ hpc = "waitDone2"
  /\ hpc' = "closePty"
  /\ UNCHANGED << taskVars, ipcVars, procVars, authVars >>
  /\ UNCHANGED << got, wrote >>
  /\ lastB' = NoMsg
  /\ UNCHANGED << conn, peer, inq, sent, wsOut, pty, ptyIn, ptyOut, made,
                  ptySize, child, killed, stopCloses, onceDone, done1, done2,
                  pcA, bufA, pcB, msgB >>

\* <-done2
CoordWaitDone2 ==
  /\ hpc = "waitDone2"
  /\ done2
  /\ hpc' = "closePty"
  /\ UNCHANGED << taskVars, ipcVars, procVars, authVars >>
  /\ UNCHANGED << got, wrote >>
  /\ lastB' = NoMsg
  /\ UNCHANGED << conn, peer, inq, sent, wsOut, pty, ptyIn, ptyOut, made,
                  ptySize, child, killed, stopCloses, onceDone, done1, done2,
                  pcA, bufA, pcB, msgB >>

\* ptmx.Close()
CoordClosePty ==
  /\ hpc = "closePty"
  /\ pty' = "closed"
  /\ hpc' = "kill"
  /\ UNCHANGED << taskVars, ipcVars, procVars, authVars >>
  /\ UNCHANGED << got, wrote >>
  /\ lastB' = NoMsg
  /\ UNCHANGED << conn, peer, inq, sent, wsOut, ptyIn, ptyOut, made, ptySize,
                  child, killed, stopCloses, onceDone, done1, done2,
                  pcA, bufA, pcB, msgB >>

\* cmd.Process.Kill(): SIGKILL ends a running child, which stays unwaited;
\* on a child that has already exited it fails and the error is dropped.
CoordKill ==
  /\ hpc = "kill"
  /\ killed' = TRUE
  /\ child' = IF child = "running" THEN "exited" ELSE child
  /\ hpc' = "wait"
  /\ UNCHANGED << taskVars, ipcVars, procVars, authVars >>
  /\ UNCHANGED << got, wrote >>
  /\ lastB' = NoMsg
  /\ UNCHANGED << conn, peer, inq, sent, wsOut, pty, ptyIn, ptyOut, made,
                  ptySize, stopCloses, onceDone, done1, done2,
                  pcA, bufA, pcB, msgB >>

\* A coordinator that goes on without cmd.Process.Wait().
CoordWaitChildSkipped ==
  /\ hpc = "wait"
  /\ hpc' = "waitDone1"
  /\ UNCHANGED << taskVars, ipcVars, procVars, authVars >>
  /\ UNCHANGED << got, wrote >>
  /\ lastB' = NoMsg
  /\ UNCHANGED << conn, peer, inq, sent, wsOut, pty, ptyIn, ptyOut, made,
                  ptySize, child, killed, stopCloses, onceDone, done1, done2,
                  pcA, bufA, pcB, msgB >>

\* cmd.Process.Wait(): blocks until the child has exited, and reaps it.
CoordWaitChild ==
  /\ hpc = "wait"
  /\ child = "exited"
  /\ child' = "reaped"
  /\ hpc' = "waitDone1"
  /\ UNCHANGED << taskVars, ipcVars, procVars, authVars >>
  /\ UNCHANGED << got, wrote >>
  /\ lastB' = NoMsg
  /\ UNCHANGED << conn, peer, inq, sent, wsOut, pty, ptyIn, ptyOut, made,
                  ptySize, killed, stopCloses, onceDone, done1, done2,
                  pcA, bufA, pcB, msgB >>

\* <-done1, and the handler returns
CoordWaitDone1 ==
  /\ hpc = "waitDone1"
  /\ done1
  /\ hpc' = "returned"
  /\ UNCHANGED << taskVars, ipcVars, procVars, authVars >>
  /\ UNCHANGED << got, wrote >>
  /\ lastB' = NoMsg
  /\ UNCHANGED << conn, peer, inq, sent, wsOut, pty, ptyIn, ptyOut, made,
                  ptySize, child, killed, stopCloses, onceDone, done1, done2,
                  pcA, bufA, pcB, msgB >>

\* --------------------------- TerminalWS: the environment (peer and child)

\* The peer sends a frame.
PeerSend ==
  /\ conn = "open"
  /\ peer = "open"
  /\ sent < MaxFrames
  /\ \E f \in PeerFrames(sent + 1) : inq' = Append(inq, f)
  /\ sent' = sent + 1
  /\ UNCHANGED << taskVars, ipcVars, procVars, authVars >>
  /\ UNCHANGED << got, wrote >>
  /\ lastB' = NoMsg
  /\ UNCHANGED << hpc, conn, peer, wsOut, pty, ptyIn, ptyOut, made, ptySize,
                  child, killed, stopCloses, onceDone, done1, done2,
                  pcA, bufA, pcB, msgB >>

\* The peer closes the connection, or goes away or stops reading.
PeerClose ==
  /\ conn = "open"
  /\ peer = "open"
  /\ peer' = "closed"
  /\ UNCHANGED << taskVars, ipcVars, procVars, authVars >>
  /\ UNCHANGED << got, wrote >>
  /\ lastB' = NoMsg
  /\ UNCHANGED << hpc, conn, inq, sent, wsOut, pty, ptyIn, ptyOut, made,
                  ptySize, child, killed, stopCloses, onceDone, done1, done2,
                  pcA, bufA, pcB, msgB >>

\* The child shell writes a chunk of output.
ChildOutput ==
  /\ child = "running"
  /\ made < MaxChunks
  /\ made' = made + 1
  /\ ptyOut' = Append(ptyOut, made + 1)
  /\ UNCHANGED << taskVars, ipcVars, procVars, authVars >>
  /\ UNCHANGED << got, wrote >>
  /\ lastB' = NoMsg
  /\ UNCHANGED << hpc, conn, peer, inq, sent, wsOut, pty, ptyIn, ptySize,
                  child, killed, stopCloses, onceDone, done1, done2,
                  pcA, bufA, pcB, msgB >>

\* The child shell reads its input.
ChildRead ==
  /\ child = "running"
  /\ ptyIn # <<>>
  /\ ptyIn' = Tail(ptyIn)
  /\ UNCHANGED << taskVars, ipcVars, procVars, authVars >>
  /\ UNCHANGED << got, wrote >>
  /\ lastB' = NoMsg
  /\ UNCHANGED << hpc, conn, peer, inq, sent, wsOut, pty, ptyOut, made, ptySize,
                  child, killed, stopCloses, onceDone, done1, done2,
                  pcA, bufA, pcB, msgB >>

\* The child shell exits on its own; until it is waited for it is a zombie.
ChildExit ==
  /\ child = "running"
  /\ child' = "exited"
  /\ UNCHANGED << taskVars, ipcVars, procVars, authVars >>
  /\ UNCHANGED << got, wrote >>
  /\ lastB' = NoMsg
  /\ UNCHANGED << hpc, conn, peer, inq, sent, wsOut, pty, ptyIn, ptyOut, made,
                  ptySize, killed, stopCloses, onceDone, done1, done2,
                  pcA, bufA, pcB, msgB >>

\* ================================================================ TaskManager

Names == {"a", "b"}

\* time.Duration arguments: negative (wait without limit), zero, positive
Timeouts == -1 .. MaxTimeout

\* A taskUnit: childWG's counter, childCancel != nil, childCtx cancelled,
\* isRun, and the position of the goroutine launched for it ("none" when no
\* goroutine of it is before its tu.childWG.Done()).  reg = FALSE stands for
\* no entry in tm.tasks.
NoUnit ==
  [reg |-> FALSE, childWG |-> 0, hasCancel |-> FALSE, cancelled |-> FALSE,
   isRun |-> FALSE, gor |-> "none"]

\* &taskUnit{task: task}: zero counter, nil childCtx and childCancel, isRun false
NewUnit == [NoUnit EXCEPT !.reg = TRUE]

\* A taskUnit that AddTask has replaced in tm.tasks while its goroutine had
\* not yet ended its body: only that goroutine refers to it now, its counter
\* is 1 and its flag set.  What still varies is the name it was registered
\* under and whether its context had been cancelled before.
OrphanKinds == Names \X BOOLEAN

NoOp == [kind |-> "none", name |-> "", t |-> 0, elapsed |-> 0, prev |-> "none"]

\* What a returned call leaves for inspection: the call, its result, and the
\* result of the call before it if that was the same call on the same name
\* ("none" otherwise).
Returned(kind, n, res, prev) ==
  [kind |-> kind, name |-> n, res |-> res, prev |-> prev]

NoRet == Returned("none", "", "ok", "none")

\* How a task body ends: it returns, or it panics with a value.  "nil" is
\* panic(nil); "boom" stands for any other value.
PanicValues == {"nil", "boom"}

Outcomes == {"return"} \cup PanicValues

\* recover() in the deferred function, after the body ended with out: the
\* values it may return.  After a return it is nil; after panic(v) with v
\* non-nil it is v; after panic(nil) it is nil under the older run-time
\* semantics and a *runtime.PanicNilError under the newer one.
recover(out) ==
  IF out = "return" THEN {"nil"}
  ELSE IF out = "nil" THEN {"nil", "PanicNilError"}
  ELSE {out}

\* if tm.panicHandler != nil { tm.panicHandler(err) } else { tm.defPanicHandler(err) }
Handler == IF panicHandler # "nil" THEN "panicHandler" ELSE "defPanicHandler"

\* No task body ended in the step just taken.
NoBoundary == [name |-> "", abort |-> "none", calls |-> << >>]

\* The body of a task registered under n ended with out and recover()
\* returned err: if err := recover(); err != nil { handler(err) }
Boundary(n, out, err) ==
  [name |-> n, abort |-> out,
   calls |-> IF err # "nil" THEN << [fn |-> Handler, arg |-> err] >> ELSE << >>]

\* The result of the call that returned last, if it was this call on this name.
Prev(kind, n) == IF ret.kind = kind /\ ret.name = n THEN ret.res ELSE "none"

\* A call that starts to wait: it holds tm.mu until it returns.
Waiting(kind, n, t) ==
  [kind |-> kind, name |-> n, t |-> t, elapsed |-> 0, prev |-> Prev(kind, n)]

\* NewTaskManager: an empty registry, zero counters
TaskInit ==
  /\ tasks = [n \in Names |-> NoUnit]
  /\ orphans = [k \in OrphanKinds |-> 0]
  /\ parentWG = 0
  /\ late = 0
  /\ op = NoOp
  /\ ret = NoRet
  /\ panicHandler \in {"nil", "set"}
  /\ parentCtx = "live"
  /\ boundary = NoBoundary
  /\ relaunched = {}

\* A TaskManager whose methods do not take tm.mu.
NoLock == TRUE

\* tm.mu is free: no call is inside the TaskManager.
Unlocked == op.kind = "none"

NumOrphans == LET S[K \in SUBSET OrphanKinds] ==
                    IF K = {} THEN 0
                    ELSE LET k == CHOOSE x \in K : TRUE
                         IN orphans[k] + S[K \ {k}]
              IN S[OrphanKinds]

\* An AddTask that cancels the scope of the taskUnit it replaces.
AddTaskCancelsOld(n) ==
  /\ Unlocked
  /\ tasks' = [tasks EXCEPT ![n] = NewUnit]
  /\ IF tasks[n].gor \in {"launched", "body"}
       THEN /\ NumOrphans < MaxOrphans
            /\ orphans' = [orphans EXCEPT ![<<n, TRUE>>] = @ + 1]
            /\ UNCHANGED late
       ELSE /\ late' = late + (IF tasks[n].gor = "exit" THEN 1 ELSE 0)
            /\ UNCHANGED orphans
  /\ ret' = Returned("AddTask", "", "ok", "none")
  /\ UNCHANGED << parentWG, op >>
  /\ boundary' = NoBoundary
  /\ UNCHANGED << panicHandler, parentCtx >>
  /\ relaunched' = {}
  /\ UNCHANGED << termVars, ipcVars, procVars, authVars >>

\* An AddTask that takes the goroutine of the taskUnit it replaces out of the
\* global counter.
AddTaskDetachesOld(n) ==
  /\ Unlocked
  /\ tasks' = [tasks EXCEPT ![n] = NewUnit]
  /\ IF tasks[n].gor \in {"launched", "body"}
       THEN /\ NumOrphans < MaxOrphans
            /\ orphans' = [orphans EXCEPT ![<<n, tasks[n].cancelled>>] = @ + 1]
            /\ parentWG' = parentWG - 1
            /\ UNCHANGED late
       ELSE /\ late' = late + (IF tasks[n].gor = "exit" THEN 1 ELSE 0)
            /\ UNCHANGED << orphans, parentWG >>
  /\ ret' = Returned("AddTask", "", "ok", "none")
  /\ UNCHANGED op
  /\ boundary' = NoBoundary
  /\ UNCHANGED << panicHandler, parentCtx >>
  /\ relaunched' = {}
  /\ UNCHANGED << termVars, ipcVars, procVars, authVars >>

\* tm.tasks[name] = &taskUnit{task: task}
\* The object the name held before, if any, is no longer in the registry.  If
\* its goroutine has not ended its body, the goroutine keeps it; if the body
\* has ended, what is left of the goroutine is tu.childWG.Done() on an object
\* nobody else refers to, and tm.parentWG.Done().
AddTask(n) ==
  /\ Unlocked
  /\ tasks' = [tasks EXCEPT ![n] = NewUnit]
  /\ IF tasks[n].gor \in {"launched", "body"}
       THEN /\ NumOrphans < MaxOrphans
            /\ orphans' = [orphans EXCEPT ![<<n, tasks[n].cancelled>>] = @ + 1]
            /\ UNCHANGED late
       ELSE /\ late' = late + (IF tasks[n].gor = "exit" THEN 1 ELSE 0)
            /\ UNCHANGED orphans
  /\ ret' = Returned("AddTask", "", "ok", "none")
  /\ UNCHANGED << parentWG, op >>
  /\ boundary' = NoBoundary
  /\ UNCHANGED << panicHandler, parentCtx >>
  /\ relaunched' = {}
  /\ UNCHANGED << termVars, ipcVars, procVars, authVars >>

\* A start that keeps the scope the taskUnit has, if it has one.
StartedKeepsScope(unit) ==
  [unit EXCEPT !.hasCancel = TRUE,
               !.childWG = @ + 1, !.isRun = TRUE, !.gor = "launched"]

\* One iteration of RunAll's loop, and the body of Run after its checks:
\* ctx, cancel := context.WithCancel(tm.parentCtx); parentWG.Add(1);
\* childWG.Add(1); isRun = true; go func(tu) {...}(t)
Started(unit) ==
  [unit EXCEPT !.hasCancel = TRUE, !.cancelled = FALSE,
               !.childWG = @ + 1, !.isRun = TRUE, !.gor = "launched"]

\* The names RunAll starts: the registered ones with isRun false.
ToStart == { n \in Names : tasks[n].reg /\ ~tasks[n].isRun }

\* A RunAll that adds one to the global counter however many tasks it starts.
RunAllCountsOnce ==
  /\ Unlocked
  /\ parentWG + Cardinality(ToStart) <= MaxLive
  /\ tasks' = [n \in Names |-> IF n \in ToStart THEN Started(tasks[n]) ELSE tasks[n]]
  /\ parentWG' = parentWG + (IF ToStart = {} THEN 0 ELSE 1)
  /\ ret' = Returned("RunAll", "", "ok", "none")
  /\ UNCHANGED << orphans, late, op >>
  /\ boundary' = NoBoundary
  /\ UNCHANGED << panicHandler, parentCtx >>
  /\ relaunched' = { n \in ToStart : tasks[n].hasCancel }
  /\ UNCHANGED << termVars, ipcVars, procVars, authVars >>

\* func (tm *TaskManager) RunAll()
RunAll ==
  /\ Unlocked
  /\ parentWG + Cardinality(ToStart) <= MaxLive
  /\ tasks' = [n \in Names |-> IF n \in ToStart THEN Started(tasks[n]) ELSE tasks[n]]
  /\ parentWG' = parentWG + Cardinality(ToStart)
  /\ ret' = Returned("RunAll", "", "ok", "none")
  /\ UNCHANGED << orphans, late, op >>
  /\ boundary' = NoBoundary
  /\ UNCHANGED << panicHandler, parentCtx >>
  /\ relaunched' = { n \in ToStart : tasks[n].hasCancel }
  /\ UNCHANGED << termVars, ipcVars, procVars, authVars >>

\* A Run that registers a name it does not find.
RunRegistersMissing(n) ==
  /\ Unlocked
  /\ ~tasks[n].reg
  /\ tasks' = [tasks EXCEPT ![n] = NewUnit]
  /\ ret' = Returned("Run", n, "notfound", Prev("Run", n))
  /\ UNCHANGED << orphans, parentWG, late, op >>
  /\ boundary' = NoBoundary
  /\ UNCHANGED << panicHandler, parentCtx >>
  /\ relaunched' = {}
  /\ UNCHANGED << termVars, ipcVars, procVars, authVars >>

\* A Run that starts the task whether or not it is running already.
RunStartsAgain(n) ==
  /\ Unlocked
  /\ tasks[n].reg
  /\ parentWG < MaxLive
  /\ tasks' = [tasks EXCEPT ![n] = [Started(@) EXCEPT !.childWG = 1]]
  /\ parentWG' = parentWG + 1
  /\ late' = late + (IF tasks[n].gor # "none" THEN 1 ELSE 0)
  /\ ret' = Returned("Run", n, "ok", Prev("Run", n))
  /\ UNCHANGED << orphans, op >>
  /\ boundary' = NoBoundary
  /\ UNCHANGED << panicHandler, parentCtx >>
  /\ relaunched' = IF tasks[n].hasCancel THEN {n} ELSE {}
  /\ UNCHANGED << termVars, ipcVars, procVars, authVars >>

\* func (tm *TaskManager) Run(name string) error
Run(n) ==
  /\ Unlocked
  /\ IF ~tasks[n].reg
       THEN /\ ret' = Returned("Run", n, "notfound", Prev("Run", n))
            /\ UNCHANGED << tasks, parentWG >>
       ELSE IF tasks[n].isRun
         THEN /\ ret' = Returned("Run", n, "ok", Prev("Run", n))
              /\ UNCHANGED << tasks, parentWG >>
         ELSE /\ parentWG < MaxLive
              /\ tasks' = [tasks EXCEPT ![n] = Started(@)]
              /\ parentWG' = parentWG + 1
              /\ ret' = Returned("Run", n, "ok", Prev("Run", n))
  /\ UNCHANGED << orphans, late, op >>
  /\ boundary' = NoBoundary
  /\ UNCHANGED << panicHandler, parentCtx >>
  /\ relaunched' = IF tasks[n].reg /\ ~tasks[n].isRun /\ tasks[n].hasCancel
                     THEN {n} ELSE {}
  /\ UNCHANGED << termVars, ipcVars, procVars, authVars >>

\* A ShutdownAll that waits on the registered taskUnits' counters instead of
\* tm.parentWG.
CounterOfRegistered ==
  IF op.kind = "ShutdownAll"
    THEN Cardinality({n \in Names : tasks[n].childWG > 0})
    ELSE tasks[op.name].childWG

\* The counter a waiting call waits on: the taskUnit's childWG, or parentWG.
Counter ==
  IF op.kind = "ShutdownAll" THEN parentWG ELSE tasks[op.name].childWG

\* func WaitGroupWithTimeout(wg *sync.WaitGroup, timeout time.Duration) error
\* The results the wait may end with now.
\*   timeout < 0: wg.Wait() returns once the counter is zero.
\*   otherwise a helper goroutine does wg.Wait() and closes done, and the caller
\*   selects on done and time.After(timeout): the helper can close done once the
\*   counter is zero, and the timer channel is ready once timeout has elapsed;
\*   whichever comes first decides, and when the timer is due in the same
\*   instant as the helper could run (timeout = 0 on a counter that is already
\*   zero) either may win.
WaitGroupWithTimeout ==
  (IF Counter = 0 THEN {"ok"} ELSE {})
    \cup (IF op.t >= 0 /\ op.elapsed = op.t THEN {"timeout"} ELSE {})

\* The timer of the waiting call is due: it fires before anything that takes
\* time happens.
TimerDue == op.kind # "none" /\ op.t >= 0 /\ op.elapsed = op.t

\* One time unit passes for a waiting call.  The helper goroutine's wake-up
\* takes no time on this scale: time does not pass while the wait can end.
Tick ==
  /\ op.kind # "none"
  /\ op.t >= 0
  /\ op.elapsed < op.t
  /\ Counter # 0
  /\ op' = [op EXCEPT !.elapsed = @ + 1]
  /\ UNCHANGED << tasks, orphans, parentWG, late, ret >>
  /\ boundary' = NoBoundary
  /\ UNCHANGED << panicHandler, parentCtx >>
  /\ relaunched' = {}
  /\ UNCHANGED << termVars, ipcVars, procVars, authVars >>

\* A Shutdown that cancels the scope of every task that has one.
ShutdownCallCancelsAll(n, t) ==
  /\ Unlocked
  /\ tasks[n].reg /\ tasks[n].hasCancel
  /\ tasks' = [m \in Names |->
                 IF tasks[m].hasCancel
                   THEN [tasks[m] EXCEPT !.cancelled = TRUE]
                   ELSE tasks[m]]
  /\ op' = Waiting("Shutdown", n, t)
  /\ ret' = NoRet
  /\ UNCHANGED << orphans, parentWG, late >>
  /\ boundary' = NoBoundary
  /\ UNCHANGED << panicHandler, parentCtx >>
  /\ relaunched' = {}
  /\ UNCHANGED << termVars, ipcVars, procVars, authVars >>

\* Shutdown up to its wait: if t, exists := tm.tasks[name]; exists {
\*   if t.childCancel != nil { t.childCancel(); WaitGroupWithTimeout(...) }
\*   t.isRun = false }; return nil
\* With nothing to wait for the call returns at once.
ShutdownCall(n, t) ==
  /\ Unlocked
  /\ IF tasks[n].reg /\ tasks[n].hasCancel
       THEN /\ tasks' = [tasks EXCEPT ![n].cancelled = TRUE]
            /\ op' = Waiting("Shutdown", n, t)
            /\ ret' = NoRet
       ELSE /\ tasks' = [tasks EXCEPT ![n].isRun = FALSE]
            /\ ret' = Returned("Shutdown", n, "ok", "none")
            /\ UNCHANGED op
  /\ UNCHANGED << orphans, parentWG, late >>
  /\ boundary' = NoBoundary
  /\ UNCHANGED << panicHandler, parentCtx >>
  /\ relaunched' = {}
  /\ UNCHANGED << termVars, ipcVars, procVars, authVars >>

\* Shutdown from the end of its wait: on an error return it; else isRun = false.
ShutdownReturn ==
  /\ op.kind = "Shutdown"
  /\ \E res \in WaitGroupWithTimeout :
       /\ tasks' = IF res = "ok"
                     THEN [tasks EXCEPT ![op.name].isRun = FALSE]
                     ELSE tasks
       /\ ret' = Returned("Shutdown", op.name, res, op.prev)
  /\ op' = NoOp
  /\ UNCHANGED << orphans, parentWG, late >>
  /\ boundary' = NoBoundary
  /\ UNCHANGED << panicHandler, parentCtx >>
  /\ relaunched' = {}
  /\ UNCHANGED << termVars, ipcVars, procVars, authVars >>

\* RemoveTask up to its wait; with nothing to wait for it deletes the entry
\* (if there is one) and returns.
RemoveTaskCall(n, t) ==
  /\ Unlocked
  /\ IF tasks[n].reg /\ tasks[n].hasCancel
       THEN /\ tasks' = [tasks EXCEPT ![n].cancelled = TRUE]
            /\ op' = Waiting("RemoveTask", n, t)
            /\ ret' = NoRet
       ELSE /\ tasks' = [tasks EXCEPT ![n] = NoUnit]
            /\ ret' = Returned("RemoveTask", n, "ok", "none")
            /\ UNCHANGED op
  /\ UNCHANGED << orphans, parentWG, late >>
  /\ boundary' = NoBoundary
  /\ UNCHANGED << panicHandler, parentCtx >>
  /\ relaunched' = {}
  /\ UNCHANGED << termVars, ipcVars, procVars, authVars >>

\* A RemoveTask that deletes the entry whatever the wait returned.
RemoveTaskReturnDeletesAlways ==
  /\ op.kind = "RemoveTask"
  /\ \E res \in WaitGroupWithTimeout :
       /\ tasks' = [tasks EXCEPT ![op.name] = NoUnit]
       /\ ret' = Returned("RemoveTask", op.name, res, op.prev)
  /\ op' = NoOp
  /\ UNCHANGED << orphans, parentWG, late >>
  /\ boundary' = NoBoundary
  /\ UNCHANGED << panicHandler, parentCtx >>
  /\ relaunched' = {}
  /\ UNCHANGED << termVars, ipcVars, procVars, authVars >>

\* RemoveTask from the end of its wait: on an error return it; else
\* delete(tm.tasks, name).
RemoveTaskReturn ==
  /\ op.kind = "RemoveTask"
  /\ \E res \in WaitGroupWithTimeout :
       /\ tasks' = IF res = "ok" THEN [tasks EXCEPT ![op.name] = NoUnit] ELSE tasks
       /\ ret' = Returned("RemoveTask", op.name, res, op.prev)
  /\ op' = NoOp
  /\ UNCHANGED << orphans, parentWG, late >>
  /\ boundary' = NoBoundary
  /\ UNCHANGED << panicHandler, parentCtx >>
  /\ relaunched' = {}
  /\ UNCHANGED << termVars, ipcVars, procVars, authVars >>

\* A ShutdownAll that cancels one task's scope and starts to wait.
ShutdownAllCallOneByOne(t) ==
  /\ Unlocked
  /\ \E m \in Names :
       tasks' = [tasks EXCEPT ![m].cancelled = tasks[m].reg /\ tasks[m].hasCancel]
  /\ op' = Waiting("ShutdownAll", "", t)
  /\ ret' = NoRet
  /\ UNCHANGED << orphans, parentWG, late >>
  /\ boundary' = NoBoundary
  /\ UNCHANGED << panicHandler, parentCtx >>
  /\ relaunched' = {}
  /\ UNCHANGED << termVars, ipcVars, procVars, authVars >>

\* ShutdownAll up to its wait: for every entry, if t.childCancel != nil
\* { t.childCancel() }; then WaitGroupWithTimeout(&tm.parentWG, timeout).
ShutdownAllCall(t) ==
  /\ Unlocked
  /\ tasks' = [n \in Names |->
                 IF tasks[n].reg /\ tasks[n].hasCancel
                   THEN [tasks[n] EXCEPT !.cancelled = TRUE]
                   ELSE tasks[n]]
  /\ op' = Waiting("ShutdownAll", "", t)
  /\ ret' = NoRet
  /\ UNCHANGED << orphans, parentWG, late >>
  /\ boundary' = NoBoundary
  /\ UNCHANGED << panicHandler, parentCtx >>
  /\ relaunched' = {}
  /\ UNCHANGED << termVars, ipcVars, procVars, authVars >>

\* for _, t := range tm.tasks { t.isRun = false }
AllStopped == [n \in Names |-> [tasks[n] EXCEPT !.isRun = FALSE]]

\* A ShutdownAll that clears the running flags whatever the wait returned.
ShutdownAllReturnClearsAlways ==
  /\ op.kind = "ShutdownAll"
  /\ \E res \in WaitGroupWithTimeout :
       /\ tasks' = AllStopped
       /\ ret' = Returned("ShutdownAll", "", res, op.prev)
  /\ op' = NoOp
  /\ UNCHANGED << orphans, parentWG, late >>
  /\ boundary' = NoBoundary
  /\ UNCHANGED << panicHandler, parentCtx >>
  /\ relaunched' = {}
  /\ UNCHANGED << termVars, ipcVars, procVars, authVars >>

\* ShutdownAll from the end of its wait: on an error return it; else
\* for every entry t.isRun = false.
ShutdownAllReturn ==
  /\ op.kind = "ShutdownAll"
  /\ \E res \in WaitGroupWithTimeout :
       /\ tasks' = IF res = "ok" THEN AllStopped ELSE tasks
       /\ ret' = Returned("ShutdownAll", "", res, op.prev)
  /\ op' = NoOp
  /\ UNCHANGED << orphans, parentWG, late >>
  /\ boundary' = NoBoundary
  /\ UNCHANGED << panicHandler, parentCtx >>
  /\ relaunched' = {}
  /\ UNCHANGED << termVars, ipcVars, procVars, authVars >>

\* ---------------------------------------- TaskManager: a task's goroutine
\* go func(tu *taskUnit) { defer func() { recover...; tu.childWG.Done();
\*   tm.parentWG.Done() }(); tu.task(tu.childCtx) }(t)
\* Its steps take time: none of them happens in the instant a timer is due.

\* The goroutine is scheduled and calls tu.task(tu.childCtx).
GoEnter(n) ==
  /\ tasks[n].gor = "launched"
  /\ ~TimerDue
  /\ tasks' = [tasks EXCEPT ![n].gor = "body"]
  /\ UNCHANGED << orphans, parentWG, late, op, ret >>
  /\ boundary' = NoBoundary
  /\ UNCHANGED << panicHandler, parentCtx >>
  /\ relaunched' = {}
  /\ UNCHANGED << termVars, ipcVars, procVars, authVars >>

\* The task body ends: it returns, having seen its context cancelled or on
\* its own, or it panics; the deferred function starts: recover and, on a
\* non-nil value, the panic handler.  A body may also never end.
GoBodyEnds(n) ==
  /\ tasks[n].gor = "body"
  /\ ~TimerDue
  /\ tasks' = [tasks EXCEPT ![n].gor = "exit"]
  /\ UNCHANGED << orphans, parentWG, late, op, ret >>
  /\ \E out \in Outcomes : \E err \in recover(out) :
       boundary' = Boundary(n, out, err)
  /\ UNCHANGED << panicHandler, parentCtx >>
  /\ relaunched' = {}
  /\ UNCHANGED << termVars, ipcVars, procVars, authVars >>

\* The deferred function goes on: tu.childWG.Done().
GoChildDone(n) ==
  /\ tasks[n].gor = "exit"
  /\ ~TimerDue
  /\ tasks' = [tasks EXCEPT ![n].gor = "none", ![n].childWG = @ - 1]
  /\ late' = late + 1
  /\ UNCHANGED << orphans, parentWG, op, ret >>
  /\ boundary' = NoBoundary
  /\ UNCHANGED << panicHandler, parentCtx >>
  /\ relaunched' = {}
  /\ UNCHANGED << termVars, ipcVars, procVars, authVars >>

\* The goroutine of a replaced taskUnit: its body ends, the deferred function
\* recovers, calls the handler on a non-nil value and does tu.childWG.Done()
\* on the replaced taskUnit.
OrphanBodyEnds(k) ==
  /\ orphans[k] > 0
  /\ ~TimerDue
  /\ orphans' = [orphans EXCEPT ![k] = @ - 1]
  /\ late' = late + 1
  /\ UNCHANGED << tasks, parentWG, op, ret >>
  /\ \E out \in Outcomes : \E err \in recover(out) :
       boundary' = Boundary(k[1], out, err)
  /\ UNCHANGED << panicHandler, parentCtx >>
  /\ relaunched' = {}
  /\ UNCHANGED << termVars, ipcVars, procVars, authVars >>

\* The end of the deferred function: tm.parentWG.Done().
GoParentDone ==
  /\ late > 0
  /\ ~TimerDue
  /\ late' = late - 1
  /\ parentWG' = parentWG - 1
  /\ UNCHANGED << tasks, orphans, op, ret >>
  /\ boundary' = NoBoundary
  /\ UNCHANGED << panicHandler, parentCtx >>
  /\ relaunched' = {}
  /\ UNCHANGED << termVars, ipcVars, procVars, authVars >>

\* ======================================================================= ipc

\* IpcMgr.ipcChan = make(chan EvtType, 16)
ChanCap == 16

Senders == 1 .. MaxSenders

\* sync.RWMutex, nobody inside
MuFree == [readers |-> 0, writer |-> FALSE, pending |-> FALSE]

\* func init(): the channel is made, the flag set; ipc.Run has not been called
IpcInit ==
  /\ ipcChan = 0
  /\ chanClosed = FALSE
  /\ isChanEnabled = TRUE
  /\ mu = MuFree
  /\ spc = [p \in Senders |-> "idle"]
  /\ sres = [p \in Senders |-> "none"]
  /\ runPc = "idle"
  /\ cons = "none"
  /\ ctxDone = FALSE
  /\ ipcPanic = "none"
  /\ accepted = 0
  /\ signals = 0

\* The calls of SendIpcEvt that are past the flag check or have returned nil
Sent == accepted + Cardinality({p \in Senders : spc[p] = "send"})

\* IpcMgr.mu.RLock() succeeds: no writer holds the lock and none waits for it
\* (a blocked Lock call keeps new readers out).
CanRLock == ~mu.writer /\ ~mu.pending

\* A SendIpcEvt that reads the flag without taking the read lock.
SendBeginNoLock(p) ==
  /\ spc[p] = "idle"
  /\ Sent < MaxEvents
  /\ IF isChanEnabled
       THEN /\ spc' = [spc EXCEPT ![p] = "send"]
            /\ sres' = [sres EXCEPT ![p] = "none"]
       ELSE /\ sres' = [sres EXCEPT ![p] = "closed"]
            /\ UNCHANGED spc
  /\ UNCHANGED << ipcChan, chanClosed, isChanEnabled, mu, runPc, cons, ctxDone,
                  ipcPanic >>
  /\ UNCHANGED << accepted, signals >>
  /\ UNCHANGED << termVars, taskVars, procVars, authVars >>

\* SendIpcEvt up to the send: IpcMgr.mu.RLock(); defer RUnlock();
\* if !IpcMgr.isChanEnabled { return error }
SendBegin(p) ==
  /\ spc[p] = "idle"
  /\ CanRLock
  /\ Sent < MaxEvents
  /\ IF isChanEnabled
       THEN /\ spc' = [spc EXCEPT ![p] = "send"]
            /\ sres' = [sres EXCEPT ![p] = "none"]
            /\ mu' = [mu EXCEPT !.readers = @ + 1]
       ELSE /\ sres' = [sres EXCEPT ![p] = "closed"]
            /\ UNCHANGED << spc, mu >>
  /\ UNCHANGED << ipcChan, chanClosed, isChanEnabled, runPc, cons, ctxDone,
                  ipcPanic >>
  /\ UNCHANGED << accepted, signals >>
  /\ UNCHANGED << termVars, taskVars, procVars, authVars >>

\* IpcMgr.ipcChan <- evt; return nil (and the deferred RUnlock).
\* The send blocks while the buffer is full; on a closed channel it panics.
SendPut(p) ==
  /\ spc[p] = "send"
  /\ IF chanClosed
       THEN /\ ipcPanic' = "send on closed channel"
            /\ sres' = [sres EXCEPT ![p] = "panic"]
            /\ UNCHANGED << ipcChan, accepted >>
       ELSE /\ ipcChan < ChanCap
            /\ ipcChan' = ipcChan + 1
            /\ sres' = [sres EXCEPT ![p] = "ok"]
            /\ accepted' = accepted + 1
            /\ UNCHANGED ipcPanic
  /\ spc' = [spc EXCEPT ![p] = "idle"]
  /\ mu' = [mu EXCEPT !.readers = @ - 1]
  /\ UNCHANGED << chanClosed, isChanEnabled, runPc, cons, ctxDone, signals >>
  /\ UNCHANGED << termVars, taskVars, procVars, authVars >>

\* ipc.Run is called: wg.Add(1); go func() {...}(); then it waits at <-ctx.Done()
RunStart ==
  /\ runPc \in {"idle", "returned", "panicked"}
  /\ cons \in {"none", "exited"}
  /\ runPc' = "wait"
  /\ cons' = "recv"
  /\ ctxDone' = FALSE
  /\ UNCHANGED << ipcChan, chanClosed, isChanEnabled, mu, spc, sres, ipcPanic >>
  /\ UNCHANGED << accepted, signals >>
  /\ UNCHANGED << termVars, taskVars, procVars, authVars >>

\* The context of the running ipc.Run is cancelled.
Cancel ==
  /\ runPc = "wait"
  /\ ~ctxDone
  /\ ctxDone' = TRUE
  /\ UNCHANGED << ipcChan, chanClosed, isChanEnabled, mu, spc, sres, runPc, cons,
                  ipcPanic >>
  /\ UNCHANGED << accepted, signals >>
  /\ UNCHANGED << termVars, taskVars, procVars, authVars >>

\* <-ctx.Done() returns and ipc.Run calls IpcMgr.mu.Lock()
RunLockRequest ==
  /\ runPc = "wait"
  /\ ctxDone
  /\ runPc' = "lock"
  /\ mu' = [mu EXCEPT !.pending = TRUE]
  /\ UNCHANGED << ipcChan, chanClosed, isChanEnabled, spc, sres, cons, ctxDone,
                  ipcPanic >>
  /\ UNCHANGED << accepted, signals >>
  /\ UNCHANGED << termVars, taskVars, procVars, authVars >>

\* Lock() returns; IpcMgr.isChanEnabled = false; close(IpcMgr.ipcChan);
\* IpcMgr.mu.Unlock().  Closing a closed channel panics, with the lock held.
RunDisable ==
  /\ runPc = "lock"
  /\ mu.readers = 0 /\ ~mu.writer
  /\ isChanEnabled' = FALSE
  /\ IF chanClosed
       THEN /\ ipcPanic' = "close of closed channel"
            /\ mu' = [readers |-> 0, writer |-> TRUE, pending |-> FALSE]
            /\ runPc' = "panicked"
            /\ UNCHANGED chanClosed
       ELSE /\ chanClosed' = TRUE
            /\ mu' = MuFree
            /\ runPc' = "wgwait"
            /\ UNCHANGED ipcPanic
  /\ UNCHANGED << ipcChan, spc, sres, cons, ctxDone >>
  /\ UNCHANGED << accepted, signals >>
  /\ UNCHANGED << termVars, taskVars, procVars, authVars >>

\* wg.Wait() returns once the consumer has exited; ipc.Run returns.
RunReturn ==
  /\ runPc = "wgwait"
  /\ cons = "exited"
  /\ runPc' = "returned"
  /\ UNCHANGED << ipcChan, chanClosed, isChanEnabled, mu, spc, sres, cons, ctxDone,
                  ipcPanic >>
  /\ UNCHANGED << accepted, signals >>
  /\ UNCHANGED << termVars, taskVars, procVars, authVars >>

\* The consumer: for evt := range IpcMgr.ipcChan receives an event
ConsRecv ==
  /\ cons = "recv"
  /\ ipcChan > 0
  /\ ipcChan' = ipcChan - 1
  /\ cons' = "handle"
  /\ UNCHANGED << chanClosed, isChanEnabled, mu, spc, sres, runPc, ctxDone,
                  ipcPanic >>
  /\ UNCHANGED << accepted, signals >>
  /\ UNCHANGED << termVars, taskVars, procVars, authVars >>

\* case Shutdown: proc.SendSignal(config.RunConf.Pid, syscall.SIGTERM)
ConsHandle ==
  /\ cons = "handle"
  /\ cons' = "recv"
  /\ signals' = signals + 1
  /\ UNCHANGED << ipcChan, chanClosed, isChanEnabled, mu, spc, sres, runPc,
                  ctxDone, ipcPanic, accepted >>
  /\ UNCHANGED << termVars, taskVars, procVars, authVars >>

\* A consumer that leaves its loop as soon as the channel is closed, whatever
\* is still queued.
ConsExitEarly ==
  /\ cons = "recv"
  /\ chanClosed
  /\ cons' = "exited"
  /\ UNCHANGED << ipcChan, chanClosed, isChanEnabled, mu, spc, sres, runPc,
                  ctxDone, ipcPanic >>
  /\ UNCHANGED << accepted, signals >>
  /\ UNCHANGED << termVars, taskVars, procVars, authVars >>

\* The range loop ends on the closed and drained channel; defer wg.Done()
ConsExit ==
  /\ cons = "recv"
  /\ ipcChan = 0
  /\ chanClosed
  /\ cons' = "exited"
  /\ UNCHANGED << ipcChan, chanClosed, isChanEnabled, mu, spc, sres, runPc,
                  ctxDone, ipcPanic >>
  /\ UNCHANGED << accepted, signals >>
  /\ UNCHANGED << termVars, taskVars, procVars, authVars >>

\* ================================================ process start and shutdown

\* finalize: taskManager.ShutdownAll(10 * time.Second)
ShutdownAllTimeout == 10
\* server.Run: context.WithTimeout(context.Background(), 5*time.Second)
ServerShutdownTimeout == 5

ProcInit ==
  /\ mpc = "start"
  /\ pidFile = "absent"
  /\ sigChan = FALSE
  /\ taskCtx = "live"
  /\ srv = "none"
  /\ srvSince = 0
  /\ relay = "none"
  /\ relayEvt = FALSE
  /\ shutdownOnce = FALSE
  /\ ptySessions = 0
  /\ requests = 0
  /\ clock = 0

\* The process has not ended
Alive == mpc \notin {"exited", "failed"}

\* run: os.WriteFile(config.PidFilePath, pid, 0644); on error return err.
\* Then sigChan := setSignal().
MainWritePidFile ==
  /\ mpc = "start"
  /\ \/ /\ pidFile' = "written"
        /\ mpc' = "config"
     \/ /\ mpc' = "failed"
        /\ UNCHANGED pidFile
  /\ UNCHANGED << sigChan, taskCtx, srv, srvSince, relay, relayEvt,
                  shutdownOnce, ptySessions, requests, clock >>
  /\ UNCHANGED << termVars, taskVars, ipcVars, authVars >>

\* run: config.Conf.LoadConfig(); redirectToDevNull(...); on error return err
MainLoadConfig ==
  /\ mpc = "config"
  /\ mpc' \in {"init", "failed"}
  /\ UNCHANGED << pidFile, sigChan, taskCtx, srv, srvSince, relay, relayEvt,
                  shutdownOnce, ptySessions, requests, clock >>
  /\ UNCHANGED << termVars, taskVars, ipcVars, authVars >>

\* run: initialize(); taskManager.RunAll(): server.Run and ipc.Run are started,
\* and run() waits at sig := <-sigChan
MainRunAll ==
  /\ mpc = "init"
  /\ srv' = "starting"
  /\ relay' = "running"
  /\ mpc' = "sigwait"
  /\ UNCHANGED << pidFile, sigChan, taskCtx, srvSince, relayEvt, shutdownOnce,
                  ptySessions, requests, clock >>
  /\ UNCHANGED << termVars, taskVars, ipcVars, authVars >>

\* SIGTERM is sent to the process from outside (the stop command's
\* proc.SendSignal): signal.Notify puts it in sigChan if there is room.
Sigterm ==
  /\ mpc \in {"config", "init", "sigwait", "finalize"}
  /\ sigChan' = TRUE
  /\ UNCHANGED << mpc, pidFile, taskCtx, srv, srvSince, relay, relayEvt,
                  shutdownOnce, ptySessions, requests, clock >>
  /\ UNCHANGED << termVars, taskVars, ipcVars, authVars >>

\* run: sig := <-sigChan; finalize() begins: taskManager.ShutdownAll cancels
\* the context of every task and starts to wait.
MainReceive ==
  /\ mpc = "sigwait"
  /\ sigChan
  /\ sigChan' = FALSE
  /\ taskCtx' = "cancelled"
  /\ clock' = 0
  /\ mpc' = "finalize"
  /\ UNCHANGED << pidFile, srv, srvSince, relay, relayEvt, shutdownOnce,
                  ptySessions, requests >>
  /\ UNCHANGED << termVars, taskVars, ipcVars, authVars >>

\* A shutdown() that sends the event on every call (no sync.Once).
shutdownNoOnce ==
  [once |-> TRUE,
   evt |-> IF relay = "running" THEN TRUE ELSE relayEvt]

\* shutdown := func() { once.Do(func() { ipc.SendIpcEvt(ipc.Shutdown) }) }
\* The values of (shutdownOnce, relayEvt) after one call: the event is queued
\* if the Once has not fired and the relay still takes events.
shutdown ==
  [once |-> TRUE,
   evt |-> IF ~shutdownOnce /\ relay = "running" THEN TRUE ELSE relayEvt]

\* server.Run fails before it serves (the DB directory, the DB, the TLS
\* certificate or key): it logs and returns, and the deferred shutdown() runs.
ServerStartFails ==
  /\ Alive
  /\ srv = "starting"
  /\ srv' = "failed"
  /\ shutdownOnce' = shutdown.once
  /\ relayEvt' = shutdown.evt
  /\ UNCHANGED << mpc, pidFile, sigChan, taskCtx, srvSince, relay,
                  ptySessions, requests, clock >>
  /\ UNCHANGED << termVars, taskVars, ipcVars, authVars >>

\* server.Run has set up the DB, the certificate and the http.Server, has
\* started the goroutine of ListenAndServeTLS and waits at <-ctx.Done().
ServerListen ==
  /\ Alive
  /\ srv = "starting"
  /\ srv' = "serving"
  /\ UNCHANGED << mpc, pidFile, sigChan, taskCtx, srvSince, relay, relayEvt,
                  shutdownOnce, ptySessions, requests, clock >>
  /\ UNCHANGED << termVars, taskVars, ipcVars, authVars >>

\* server.Run's goroutine: ListenAndServeTLS fails to listen; shutdown().
\* server.Run itself stays at <-ctx.Done().
ServerError ==
  /\ Alive
  /\ srv = "serving"
  /\ requests = 0
  /\ ptySessions = 0
  /\ srv' = "nolisten"
  /\ shutdownOnce' = shutdown.once
  /\ relayEvt' = shutdown.evt
  /\ UNCHANGED << mpc, pidFile, sigChan, taskCtx, srvSince, relay,
                  ptySessions, requests, clock >>
  /\ UNCHANGED << termVars, taskVars, ipcVars, authVars >>

\* server.Run: <-ctx.Done(); server.Shutdown(shutdownCtx) is called.  It
\* closes the listeners and waits, for the span of its context, for the
\* connections it tracks to become idle; hijacked connections (websockets)
\* are not among them: it neither closes them nor waits for them.
ServerShutdownCall ==
  /\ Alive
  /\ srv \in {"serving", "nolisten"}
  /\ taskCtx = "cancelled"
  /\ srv' = "shutdown"
  /\ srvSince' = clock
  /\ UNCHANGED << mpc, pidFile, sigChan, taskCtx, relay, relayEvt, shutdownOnce,
                  ptySessions, requests, clock >>
  /\ UNCHANGED << termVars, taskVars, ipcVars, authVars >>

\* server.Shutdown returns, with nil once no tracked connection is busy, or
\* with the context's error after 5 seconds; server.Run returns, and its
\* deferred calls run: cancel(), db.CloseSqliteDB(), shutdown().
ServerShutdownReturn ==
  /\ Alive
  /\ srv = "shutdown"
  /\ \/ requests = 0
     \/ clock - srvSince >= ServerShutdownTimeout
  /\ srv' = "returned"
  /\ shutdownOnce' = shutdown.once
  /\ relayEvt' = shutdown.evt
  /\ UNCHANGED << mpc, pidFile, sigChan, taskCtx, srvSince, relay, ptySessions,
                  requests, clock >>
  /\ UNCHANGED << termVars, taskVars, ipcVars, authVars >>

\* The relay's consumer receives the event: proc.SendSignal(own pid, SIGTERM)
RelaySignal ==
  /\ Alive
  /\ relayEvt
  /\ relayEvt' = FALSE
  /\ sigChan' = TRUE
  /\ UNCHANGED << mpc, pidFile, taskCtx, srv, srvSince, relay, shutdownOnce,
                  ptySessions, requests, clock >>
  /\ UNCHANGED << termVars, taskVars, ipcVars, authVars >>

\* ipc.Run: cancelled, it closes the queue, the consumer drains it, Run returns
RelayReturn ==
  /\ Alive
  /\ relay = "running"
  /\ taskCtx = "cancelled"
  /\ ~relayEvt
  /\ relay' = "returned"
  /\ UNCHANGED << mpc, pidFile, sigChan, taskCtx, srv, srvSince, relayEvt,
                  shutdownOnce, ptySessions, requests, clock >>
  /\ UNCHANGED << termVars, taskVars, ipcVars, authVars >>

\* finalize: ShutdownAll returns, with nil once both tasks have returned or
\* with a timeout after 10 seconds; logger.FinalizeLogger(); run returns nil
\* and the process exits.  Nothing else is done on the way out.
MainExit ==
  /\ mpc = "finalize"
  /\ \/ srv \in {"returned", "failed"} /\ relay = "returned"
     \/ clock >= ShutdownAllTimeout
  /\ mpc' = "exited"
  /\ UNCHANGED << pidFile, sigChan, taskCtx, srv, srvSince, relay, relayEvt,
                  shutdownOnce, ptySessions, requests, clock >>
  /\ UNCHANGED << termVars, taskVars, ipcVars, authVars >>

\* A peer opens a terminal: TerminalWS upgrades (hijacks) the connection,
\* spawns the shell and starts its pumps.
SessionOpen ==
  /\ Alive
  /\ srv = "serving"
  /\ ptySessions < MaxSessions
  /\ ptySessions' = ptySessions + 1
  /\ UNCHANGED << mpc, pidFile, sigChan, taskCtx, srv, srvSince, relay, relayEvt,
                  shutdownOnce, requests, clock >>
  /\ UNCHANGED << termVars, taskVars, ipcVars, authVars >>

\* A terminal session ends by itself (peer gone or shell exited) and its
\* handler's teardown completes.
SessionClose ==
  /\ Alive
  /\ ptySessions > 0
  /\ ptySessions' = ptySessions - 1
  /\ UNCHANGED << mpc, pidFile, sigChan, taskCtx, srv, srvSince, relay, relayEvt,
                  shutdownOnce, requests, clock >>
  /\ UNCHANGED << termVars, taskVars, ipcVars, authVars >>

\* An ordinary request arrives
RequestBegin ==
  /\ Alive
  /\ srv = "serving"
  /\ requests < MaxRequests
  /\ requests' = requests + 1
  /\ UNCHANGED << mpc, pidFile, sigChan, taskCtx, srv, srvSince, relay, relayEvt,
                  shutdownOnce, ptySessions, clock >>
  /\ UNCHANGED << termVars, taskVars, ipcVars, authVars >>

\* An ordinary request is answered
RequestEnd ==
  /\ Alive
  /\ requests > 0
  /\ requests' = requests - 1
  /\ UNCHANGED << mpc, pidFile, sigChan, taskCtx, srv, srvSince, relay, relayEvt,
                  shutdownOnce, ptySessions, clock >>
  /\ UNCHANGED << termVars, taskVars, ipcVars, authVars >>

\* A second passes while finalize() waits
ClockTick ==
  /\ mpc = "finalize"
  /\ clock < ShutdownAllTimeout
  /\ clock' = clock + 1
  /\ UNCHANGED << mpc, pidFile, sigChan, taskCtx, srv, srvSince, relay, relayEvt,
                  shutdownOnce, ptySessions, requests >>
  /\ UNCHANGED << termVars, taskVars, ipcVars, authVars >>

\* ==================================================== the router's middlewares

\* RequireAuth: idleTimeout := 30 * time.Minute
IdleTimeout == 30
\* RequireAuth: if now.Sub(lastSeen) >= 10*time.Minute { refresh }
RefreshAfter == 10

\* A request path is the sequence of its segments: "/terminal/ws" is
\* <<"terminal", "ws">> and "/" is <<>>.
Paths ==
  { <<>>, << "login" >>, << "setup" >>, << "logout" >>, << "favicon.ico" >>,
    << "static", "app.js" >>, << "staticx" >>, << "login", "x" >>,
    << "terminal" >>, << "terminal", "ws" >>, << "ping" >> }

\* A session value: absent, an int64, or a value of another type
NoValue == [type |-> "nil", v |-> 0]
Int64(n) == [type |-> "int64", v |-> n]
OtherValue == [type |-> "string", v |-> 0]

Sess(u, l) == [user_id |-> u, last_seen |-> l]

\* sess.Clear(), and the session of a client without a cookie
NoSession == Sess("nil", NoValue)

\* The request dealt with in the step just taken: its path, the session it
\* carried, the time, whether RequireAuth ran for it, how the middlewares
\* answered ("next" or the path of a redirect) and the handler that was
\* reached ("none" if none).
Served(path, sess, guard, status, handler) ==
  [path |-> path, sess |-> sess, at |-> now, guard |-> guard,
   status |-> status, handler |-> handler]

\* No request has been dealt with in the step just taken
NoServed ==
  [path |-> <<>>, sess |-> NoSession, at |-> 0, guard |-> FALSE,
   status |-> "none", handler |-> "none"]

AuthInit ==
  /\ AdminExists = FALSE
  /\ now = IdleTimeout + 1
  /\ cookie = NoSession
  /\ served = NoServed
  /\ lastAuth = 0

\* NewGinRouterEngine: the handler gin finds for a GET of the path
Route(path) ==
  CASE path = <<>> -> "HtmlIndex"
    [] path = << "setup" >> -> "HtmlSetup"
    [] path = << "login" >> -> "HtmlLogin"
    [] path = << "logout" >> -> "Logout"
    [] path = << "terminal" >> -> "HtmlTerminal"
    [] path = << "terminal", "ws" >> -> "TerminalWS"
    [] path = << "ping" >> -> "Ping"
    [] Len(path) >= 2 /\ path[1] = "static" -> "Static"
    [] OTHER -> "NoRoute"

\* EnsureAdminExists: "next", or the path it redirects to.
\* strings.HasPrefix(path, "/static") also holds for "/staticx".
EnsureAdminExists(path) ==
  IF \/ Len(path) >= 1 /\ path[1] \in {"static", "staticx"}
     \/ path = << "favicon.ico" >>
    THEN "next"
    ELSE IF ~AdminExists
           THEN IF path # << "setup" >> THEN "/setup" ELSE "next"
           ELSE IF path = << "setup" >> THEN "/login" ELSE "next"

\* RequireAuth: the paths it lets through unexamined
Exempt(path) ==
  \/ Len(path) >= 2 /\ path[1] = "static"
  \/ path \in { << "login" >>, << "setup" >>, << "logout" >>, << "favicon.ico" >> }

\* RequireAuth: the type switch on sess.Get("last_seen")
lastSeenUnix(sess) ==
  IF sess.last_seen.type = "int64" THEN sess.last_seen.v ELSE 0

\* A guard that checks the user only, not the age of the session.
RequireAuthNoIdle(path, sess, t) ==
  IF Exempt(path) THEN [status |-> "next", sess |-> sess]
  ELSE IF sess.user_id = "nil" THEN [status |-> "/login", sess |-> sess]
  ELSE [status |-> "next", sess |-> sess]

\* RequireAuth at time t for a request with the session sess: "next" or the
\* redirect, and the session it leaves in the cookie.
RequireAuth(path, sess, t) ==
  IF Exempt(path) THEN [status |-> "next", sess |-> sess]
  ELSE IF sess.user_id = "nil" THEN [status |-> "/login", sess |-> sess]
  ELSE IF lastSeenUnix(sess) = 0 \/ t - lastSeenUnix(sess) > IdleTimeout
    THEN [status |-> "/login", sess |-> NoSession]
  ELSE IF t - lastSeenUnix(sess) >= RefreshAfter
    THEN [status |-> "next", sess |-> [sess EXCEPT !.last_seen = Int64(t)]]
  ELSE [status |-> "next", sess |-> sess]

\* A GET request for the path goes through the engine: the static route was
\* registered before r.Use and has no middleware; every other request passes
\* EnsureAdminExists and RequireAuth and then reaches its handler.
Request(path) ==
  LET h == Route(path)
      e == EnsureAdminExists(path)
      r == RequireAuth(path, cookie, now)
  IN  /\ IF h = "Static"
           THEN /\ served' = Served(path, cookie, FALSE, "next", h)
                /\ UNCHANGED << cookie, lastAuth >>
         ELSE IF e # "next"
           THEN /\ served' = Served(path, cookie, FALSE, e, "none")
                /\ UNCHANGED << cookie, lastAuth >>
         ELSE IF r.status # "next"
           THEN /\ served' = Served(path, cookie, TRUE, r.status, "none")
                /\ cookie' = r.sess
                /\ lastAuth' = 0
         ELSE /\ served' = Served(path, cookie, TRUE, "next", h)
              /\ cookie' = IF h = "Logout" THEN NoSession ELSE r.sess
              /\ lastAuth' = IF h = "Logout" THEN 0
                             ELSE IF Exempt(path) \/ lastAuth = 0 THEN lastAuth
                             ELSE now
      /\ UNCHANGED << AdminExists, now >>
      /\ UNCHANGED << termVars, taskVars, ipcVars, procVars >>

\* POST /setup while no admin exists: RegisterAdmin creates the admin
RegisterAdmin ==
  /\ ~AdminExists
  /\ AdminExists' = TRUE
  /\ served' = NoServed
  /\ UNCHANGED << now, cookie, lastAuth >>
  /\ UNCHANGED << termVars, taskVars, ipcVars, procVars >>

\* POST /login with the right credentials: sess.Clear(), user_id, last_seen
Login ==
  /\ AdminExists
  /\ cookie' = Sess("admin", Int64(now))
  /\ lastAuth' = now
  /\ served' = NoServed
  /\ UNCHANGED << AdminExists, now >>
  /\ UNCHANGED << termVars, taskVars, ipcVars, procVars >>

\* The sessions a client may present besides the one the server gave it
Presented ==
  { NoSession,
    Sess("admin", NoValue),
    Sess("admin", Int64(0)),
    Sess("admin", OtherValue),
    Sess("nil", Int64(now)),
    Sess("admin", Int64(now + 1)) }

\* The client comes with another cookie
Present ==
  /\ \E c \in Presented : cookie' = c
  /\ cookie' # cookie
  /\ lastAuth' = 0
  /\ served' = NoServed
  /\ UNCHANGED << AdminExists, now >>
  /\ UNCHANGED << termVars, taskVars, ipcVars, procVars >>

\* Time passes: a minute, or ten
TimePasses ==
  /\ \E d \in {1, 10} :
       /\ now + d <= MaxNow
       /\ now' = now + d
  /\ served' = NoServed
  /\ UNCHANGED << AdminExists, cookie, lastAuth >>
  /\ UNCHANGED << termVars, taskVars, ipcVars, procVars >>

\* ------------------------------------------- TaskManager: specification

TaskNext ==
  \/ \E n \in Names : AddTask(n)
  \/ RunAll
  \/ \E n \in Names : Run(n)
  \/ \E n \in Names, t \in Timeouts : ShutdownCall(n, t)
  \/ ShutdownReturn
  \/ \E n \in Names, t \in Timeouts : RemoveTaskCall(n, t)
  \/ RemoveTaskReturn
  \/ \E t \in Timeouts : ShutdownAllCall(t)
  \/ ShutdownAllReturn
  \/ Tick
  \/ \E n \in Names : GoEnter(n)
  \/ \E n \in Names : GoBodyEnds(n)
  \/ \E n \in Names : GoChildDone(n)
  \/ \E k \in OrphanKinds : OrphanBodyEnds(k)
  \/ GoParentDone

Init == TerminalInit /\ TaskInit /\ IpcInit /\ ProcInit /\ AuthInit

TaskSpec == Init /\ [][TaskNext]_vars

\* ------------------------------------------- TerminalWS: specification

\* The steps of the handler's own routines.
TerminalProgram ==
  \/ Upgrade \/ Spawn
  \/ ARead \/ AWrite \/ AStop \/ AClose
  \/ BRead \/ BWritePty \/ BControl \/ BStop \/ BClose
  \/ CoordStopped \/ CoordCloseConn \/ CoordWaitDone2 \/ CoordClosePty
  \/ CoordKill \/ CoordWaitChild \/ CoordWaitDone1

TerminalEnvironment ==
  PeerSend \/ PeerClose \/ ChildOutput \/ ChildRead \/ ChildExit

TerminalNext == TerminalProgram \/ TerminalEnvironment

TerminalSpec == Init /\ [][TerminalNext]_vars

\* --------------------------------------------------- ipc: specification

\* The steps of the package's own goroutines once they are under way
IpcProgram ==
  \/ \E p \in Senders : SendPut(p)
  \/ RunLockRequest
  \/ RunDisable
  \/ RunReturn
  \/ ConsRecv
  \/ ConsHandle
  \/ ConsExit

\* What the rest of the process decides: calling SendIpcEvt, starting the
\* relay task, cancelling its context
IpcEnvironment ==
  \/ \E p \in Senders : SendBegin(p)
  \/ RunStart
  \/ Cancel

IpcNext == IpcProgram \/ IpcEnvironment

IpcSpec == Init /\ [][IpcNext]_vars

\* The Go scheduler runs every goroutine that can take a step, and the process
\* starts the relay task at start-up (RunAll); senders and the cancellation of
\* the relay's context are under no obligation.
IpcLiveSpec ==
  /\ IpcSpec
  /\ WF_vars(RunStart)
  /\ WF_vars(RunLockRequest)
  /\ WF_vars(RunDisable)
  /\ WF_vars(RunReturn)
  /\ WF_vars(ConsRecv)
  /\ WF_vars(ConsHandle)
  /\ WF_vars(ConsExit)

\* ---------------------------------------------- the process: specification

ProcNext ==
  \/ MainWritePidFile
  \/ MainLoadConfig
  \/ MainRunAll
  \/ Sigterm
  \/ MainReceive
  \/ ServerStartFails
  \/ ServerListen
  \/ ServerError
  \/ ServerShutdownCall
  \/ ServerShutdownReturn
  \/ RelaySignal
  \/ RelayReturn
  \/ MainExit
  \/ SessionOpen
  \/ SessionClose
  \/ RequestBegin
  \/ RequestEnd
  \/ ClockTick

ProcSpec == Init /\ [][ProcNext]_vars

\* The Go scheduler runs every goroutine that can take a step (the main
\* routine, server.Run, the relay and its consumer), and time passes while
\* finalize() waits; signals from outside, failures, clients and their
\* requests are under no obligation.
ProcLiveSpec ==
  /\ ProcSpec
  /\ WF_vars(MainReceive)
  /\ WF_vars(MainExit)
  /\ WF_vars(ServerShutdownCall)
  /\ WF_vars(ServerShutdownReturn)
  /\ WF_vars(RelaySignal)
  /\ WF_vars(RelayReturn)
  /\ WF_vars(ClockTick)

\* ------------------------------------------------ the router: specification

AuthNext ==
  \/ \E path \in Paths : Request(path)
  \/ RegisterAdmin
  \/ Login
  \/ Present
  \/ TimePasses

AuthSpec == Init /\ [][AuthNext]_vars

\* ======================================================= TerminalWS: claims

\* C1: when the handler has returned from a session in which the shell was
\* spawned, the child has been signalled (Kill was called) and waited for:
\* no returned handler leaves a running or an unwaited child.
C1_ChildReaped ==
  (hpc = "returned" /\ child # "none") => (killed /\ child = "reaped")

\* C1 witness: a session with a spawned shell has returned, the child reaped,
\* after the shell had exited on its own while the peer was still there.
C1_Witness ==
  hpc = "returned" /\ child = "reaped" /\ killed /\ peer = "open"

\* C2: once the stop signal has fired, the teardown goes on by the handler's
\* own routines alone until the coordinator has returned: as long as it has
\* not returned, the coordinator or a pump can take a step, whatever the peer
\* and the child do.
C2_TeardownProceeds ==
  (stopCloses > 0 /\ hpc # "returned") => ENABLED TerminalProgram

\* C3: the teardown starts only after the stop signal and runs in the order
\* close connection, inbound pump finished, close pty, kill, wait, outbound
\* pump finished: each step finds the steps before it done, and the
\* coordinator returns only with both pumps finished.
C3_TeardownOrder ==
  /\ hpc \in {"closeConn", "waitDone2", "closePty", "kill", "wait", "waitDone1"}
       => stopCloses > 0
  /\ (child # "none" /\ conn = "closed") => stopCloses > 0
  /\ pty = "closed" => (conn = "closed" /\ done2 /\ pcB = "done")
  /\ killed => pty = "closed"
  /\ child = "reaped" => killed
  /\ (child # "none" /\ hpc = "returned")
       => /\ conn = "closed" /\ pty = "closed" /\ killed /\ child = "reaped"
          /\ done1 /\ done2 /\ pcA = "done" /\ pcB = "done"

\* C3 witness: the coordinator has returned from a torn-down session.
C3_Witness ==
  hpc = "returned" /\ pty = "closed" /\ conn = "closed" /\ done1 /\ done2

\* C4: stopCh is closed at most once, and exactly once as soon as either pump
\* has called stop(); a second call of stop() closes nothing.
C4_StopSingleFire ==
  /\ stopCloses <= 1
  /\ onceDone <=> stopCloses = 1
  /\ (pcA \in {"close", "done"} \/ pcB \in {"close", "done"}) => stopCloses = 1

\* C4 witness: both pumps have called stop() before the coordinator has even
\* taken the signal, and stopCh was closed once.
C4_Witness ==
  /\ pcA \in {"close", "done"}
  /\ pcB \in {"close", "done"}
  /\ hpc = "waitStop"
  /\ stopCloses = 1

\* ====================================================== TaskManager: claims

\* The goroutines launched under name n whose body has not returned: the one
\* of the registered taskUnit and those of taskUnits AddTask replaced.
BodiesPending(n) ==
  (IF tasks[n].gor \in {"launched", "body"} THEN 1 ELSE 0)
    + orphans[<<n, TRUE>>] + orphans[<<n, FALSE>>]

\* C5: a Shutdown(name) or ShutdownAll that returned success leaves no body
\* launched under that name (under any name, for ShutdownAll) that has not
\* returned.
C5_SuccessMeansBodyReturned ==
  /\ (ret.kind = "Shutdown" /\ ret.res = "ok") => BodiesPending(ret.name) = 0
  /\ (ret.kind = "ShutdownAll" /\ ret.res = "ok")
       => \A n \in Names : BodiesPending(n) = 0

\* C6: a Shutdown of a task whose running flag is set returns success, with
\* the flag cleared, when the body has returned by the end of the wait, and
\* returns the timeout error, with flag and registry as they were, when it has
\* not.
C6_ShutdownOutcome ==
  [][ (op.kind = "Shutdown" /\ op'.kind = "none" /\ tasks[op.name].isRun)
        => IF Counter = 0
             THEN ret'.res = "ok" /\ ~tasks'[op.name].isRun
             ELSE ret'.res = "timeout" /\ tasks' = tasks
    ]_vars

\* C7: while ShutdownAll waits, the scope of every registered task that has
\* one is cancelled; when it returns success no goroutine of any task is left,
\* the global counter is zero and every registered task's running flag is
\* cleared; when it returns the timeout error no taskUnit has changed.
C7_ShutdownAll ==
  /\ [](op.kind = "ShutdownAll" =>
          \A n \in Names : tasks[n].hasCancel => tasks[n].cancelled)
  /\ [][ (op.kind = "ShutdownAll" /\ op'.kind = "none")
           => IF ret'.res = "ok"
                THEN /\ parentWG' = 0 /\ late' = 0
                     /\ \A k \in OrphanKinds : orphans'[k] = 0
                     /\ \A n \in Names : tasks'[n].gor = "none"
                     /\ \A n \in Names : ~tasks'[n].isRun
                ELSE /\ ret'.res = "timeout"
                     /\ tasks' = tasks
       ]_vars

\* C7 witness: ShutdownAll has returned success for a task it had to cancel.
C7_Witness ==
  /\ ret.kind = "ShutdownAll" /\ ret.res = "ok"
  /\ \E n \in Names : tasks[n].reg /\ tasks[n].cancelled

\* C8: RemoveTask deletes the entry exactly when its wait succeeded or there
\* was nothing to wait for, and then changes no other entry; when the wait
\* timed out the registry and every taskUnit are as they were.
C8_RemoveTask ==
  [][ /\ (op.kind = "RemoveTask" /\ op'.kind = "none")
           => /\ ret'.res \in {"ok", "timeout"}
              /\ ret'.res = "ok" => tasks' = [tasks EXCEPT ![op.name] = NoUnit]
              /\ ret'.res = "timeout" => tasks' = tasks
      /\ (Unlocked /\ op'.kind = "none" /\ ret'.kind = "RemoveTask"
            /\ late' = late /\ orphans' = orphans
            /\ \A n \in Names : tasks'[n].gor = tasks[n].gor)
           => /\ ret'.res = "ok"
              /\ tasks' = [tasks EXCEPT ![ret'.name] = NoUnit]
    ]_vars

\* C8 witness: a RemoveTask that was repeated after a timeout has removed the
\* entry.
C8_Witness ==
  /\ ret.kind = "RemoveTask" /\ ret.res = "ok" /\ ret.prev = "timeout"
  /\ ~tasks[ret.name].reg

\* C9: a Shutdown or RemoveTask of a name whose task is not running (its
\* running flag is not set) returns success, whatever the timeout.
C9_NotRunningIsNoop ==
  [][ (op.kind \in {"Shutdown", "RemoveTask"} /\ op'.kind = "none"
         /\ ~tasks[op.name].isRun)
        => ret'.res = "ok"
    ]_vars

\* C10: no name has two bodies that were launched and have not returned.
C10_OneInstancePerName ==
  \A n \in Names : BodiesPending(n) <= 1

\* C11: when a task body panics, the configured handler (the default one
\* when none is configured) is called exactly once with the value of the
\* panic; the goroutine still owes exactly one decrement of its taskUnit's
\* counter and one of the global counter; and no other task's taskUnit, no
\* other body and neither counter is touched by the abort.
C11_AbortHandledOnce ==
  /\ [](/\ parentWG = late + NumOrphans
                        + Cardinality({n \in Names : tasks[n].gor # "none"})
        /\ \A n \in Names :
             tasks[n].childWG = (IF tasks[n].gor # "none" THEN 1 ELSE 0))
  /\ [][ boundary'.abort \in PanicValues
           => /\ boundary'.calls
                   = << [fn |-> Handler, arg |-> boundary'.abort] >>
              /\ \A m \in Names \ {boundary'.name} : tasks'[m] = tasks[m]
              /\ \A k \in OrphanKinds :
                   k[1] # boundary'.name => orphans'[k] = orphans[k]
              /\ parentWG' = parentWG
              /\ op' = op /\ ret' = ret
       ]_vars

\* C12: a Run of a name that is not registered returns the not-found error
\* and changes nothing: no registration, no taskUnit, no counter, no goroutine.
C12_RunNotFound ==
  [][ (Unlocked /\ ret'.kind = "Run" /\ ret' # ret)
        => IF tasks[ret'.name].reg
             THEN ret'.res = "ok"
             ELSE /\ ret'.res = "notfound"
                  /\ tasks' = tasks /\ orphans' = orphans
                  /\ parentWG' = parentWG /\ late' = late /\ op' = op
    ]_vars

\* C12 witness: Run has returned not-found for an unregistered name while
\* another task is running.
C12_Witness ==
  /\ ret.kind = "Run" /\ ret.res = "notfound"
  /\ ~tasks[ret.name].reg
  /\ \E m \in Names : tasks[m].gor = "body"

\* C13: on a task whose running flag is set, Run returns success and RunAll
\* skips it: no goroutine is launched, no scope is created, neither counter
\* changes; and after a Run, a step that is no different call (the same Run
\* once more included) starts nothing.
C13_RunIdempotent ==
  [][ /\ (Unlocked /\ ret'.kind = "Run" /\ ret' # ret /\ tasks[ret'.name].isRun)
           => /\ ret'.res = "ok"
              /\ tasks' = tasks /\ orphans' = orphans
              /\ parentWG' = parentWG /\ late' = late
      /\ (Unlocked /\ ret'.kind = "RunAll" /\ ret' # ret)
           => /\ \A n \in Names : tasks[n].isRun => tasks'[n] = tasks[n]
              /\ parentWG' = parentWG + Cardinality(ToStart)
              /\ orphans' = orphans /\ late' = late
      /\ (ret.kind = "Run" /\ ret' = ret)
           => /\ parentWG' <= parentWG
              /\ \A n \in Names :
                   /\ tasks'[n].isRun = tasks[n].isRun
                   /\ tasks'[n].hasCancel = tasks[n].hasCancel
                   /\ tasks'[n].cancelled = tasks[n].cancelled
                   /\ tasks'[n].childWG <= tasks[n].childWG
    ]_vars

\* C13 witness: Run has returned success twice in a row for a name whose body
\* is executing.
C13_Witness ==
  /\ ret.kind = "Run" /\ ret.res = "ok" /\ ret.prev = "ok"
  /\ tasks[ret.name].isRun /\ tasks[ret.name].gor = "body"

\* C14: Shutdown and RemoveTask cancel the scope of the named task only: the
\* root scope is never cancelled, and from the call to its return the
\* taskUnit of every other name, the scope, flag and counter in it, and every
\* replaced taskUnit stay as they are, apart from what their own goroutines do.
C14_CancelIsolation ==
  /\ [](parentCtx = "live")
  /\ [][ /\ (Unlocked /\ op'.kind \in {"Shutdown", "RemoveTask"})
              => /\ tasks'[op'.name].cancelled
                 /\ \A m \in Names \ {op'.name} : tasks'[m] = tasks[m]
                 /\ orphans' = orphans
         /\ (op.kind \in {"Shutdown", "RemoveTask"} /\ op'.kind = "none")
              => /\ \A m \in Names \ {op.name} : tasks'[m] = tasks[m]
                 /\ orphans' = orphans
         /\ (Unlocked /\ op'.kind = "none" /\ ret' # ret
               /\ ret'.kind \in {"Shutdown", "RemoveTask"})
              => /\ \A m \in Names \ {ret'.name} : tasks'[m] = tasks[m]
                 /\ orphans' = orphans
         /\ op.kind \in {"Shutdown", "RemoveTask"}
              => \A m \in Names \ {op.name} :
                   /\ tasks'[m].cancelled = tasks[m].cancelled
                   /\ tasks'[m].isRun = tasks[m].isRun
                   /\ tasks'[m].hasCancel = tasks[m].hasCancel
       ]_vars

\* C14 witness: a Shutdown waits for its task, whose scope it has cancelled,
\* while the body of another task executes with its scope not cancelled.
C14_Witness ==
  /\ op.kind = "Shutdown"
  /\ tasks[op.name].cancelled /\ tasks[op.name].gor = "body"
  /\ \E m \in Names \ {op.name} :
       tasks[m].gor = "body" /\ tasks[m].isRun /\ ~tasks[m].cancelled

\* C15: an AddTask on a name whose body has been launched and has not ended
\* replaces the taskUnit at once, without cancelling its scope and without
\* waiting; and the scope of a replaced taskUnit that was not cancelled is
\* never cancelled afterwards: such a taskUnit goes away only by its own body
\* ending.
C15_ReplacedInstanceOrphaned ==
  [][ \A n \in Names :
        /\ (Unlocked /\ tasks[n].gor \in {"launched", "body"}
              /\ tasks'[n].gor = "none")
             => /\ tasks'[n] = NewUnit
                /\ orphans' = [orphans EXCEPT ![<<n, tasks[n].cancelled>>] = @ + 1]
                /\ op' = op /\ parentWG' = parentWG /\ late' = late
        /\ orphans'[<<n, TRUE>>] > orphans[<<n, TRUE>>]
             => /\ tasks[n].cancelled /\ tasks[n].gor \in {"launched", "body"}
                /\ orphans'[<<n, FALSE>>] = orphans[<<n, FALSE>>]
        /\ orphans'[<<n, FALSE>>] < orphans[<<n, FALSE>>]
             => /\ boundary'.name = n /\ boundary'.abort # "none"
                /\ orphans'[<<n, TRUE>>] = orphans[<<n, TRUE>>]
    ]_vars

\* C15 witness: ShutdownAll has cancelled what it could and timed out, and a
\* replaced taskUnit is still there with its scope not cancelled.
C15_Witness ==
  /\ ret.kind = "ShutdownAll" /\ ret.res = "timeout"
  /\ \E n \in Names : orphans[<<n, FALSE>>] > 0 /\ tasks[n].cancelled

\* C16: the calls are serialized by tm.mu: while a Shutdown, RemoveTask or
\* ShutdownAll holds it in its wait, no other call begins or returns, and the
\* registry and every taskUnit's flag and scope stay as they are until that
\* call itself returns; only time and the tasks' goroutines move.
C16_Serialized ==
  [][ op.kind # "none"
        => /\ op' \in {NoOp, op, [op EXCEPT !.elapsed = op.elapsed + 1]}
           /\ op' # NoOp
                => /\ ret' = ret
                   /\ \A n \in Names :
                        /\ tasks'[n].reg = tasks[n].reg
                        /\ tasks'[n].isRun = tasks[n].isRun
                        /\ tasks'[n].hasCancel = tasks[n].hasCancel
                        /\ tasks'[n].cancelled = tasks[n].cancelled
                        /\ tasks'[n].childWG <= tasks[n].childWG
                   /\ \A k \in OrphanKinds : orphans'[k] <= orphans[k]
                   /\ parentWG' <= parentWG
           /\ op' = NoOp
                => /\ ret'.kind = op.kind /\ ret'.name = op.name
                   /\ orphans' = orphans /\ parentWG' = parentWG
    ]_vars

\* C16 witness: a ShutdownAll is in its wait, time has passed, and a body
\* that was launched before is executing.
C16_Witness ==
  /\ op.kind = "ShutdownAll" /\ op.elapsed > 0
  /\ \E n \in Names : tasks[n].gor = "body"
  /\ \E n \in Names : tasks[n].reg /\ ~tasks[n].isRun

\* C17: once a ShutdownAll has returned success no goroutine of any task is
\* left; a ShutdownAll with a positive timeout that follows it directly finds
\* nothing to cancel anew and nothing to wait for, returns success without
\* time passing, and leaves every taskUnit and counter as it was.
C17_ShutdownAllIdempotent ==
  /\ []((ret.kind = "ShutdownAll" /\ ret.res = "ok")
          => /\ parentWG = 0 /\ late = 0
             /\ \A k \in OrphanKinds : orphans[k] = 0
             /\ \A n \in Names : tasks[n].gor = "none" /\ ~tasks[n].isRun)
  /\ [][ /\ (Unlocked /\ op'.kind = "ShutdownAll" /\ op'.prev = "ok" /\ op'.t > 0)
              => /\ tasks' = tasks
                 /\ parentWG' = 0 /\ orphans' = orphans /\ late' = 0
         /\ (op.kind = "ShutdownAll" /\ op.prev = "ok" /\ op.t > 0)
              => /\ op' = NoOp
                 /\ op.elapsed = 0
                 /\ ret'.res = "ok"
                 /\ tasks' = tasks
                 /\ parentWG' = 0 /\ orphans' = orphans /\ late' = 0
       ]_vars

\* C17 witness: a second ShutdownAll, with a positive timeout, directly after
\* one that returned success for a task it had cancelled.
C17_Witness ==
  /\ op.kind = "ShutdownAll" /\ op.prev = "ok" /\ op.t > 0
  /\ \E n \in Names : tasks[n].reg /\ tasks[n].cancelled

\* C18: ShutdownAll cancels all scopes before it waits: in the step in which
\* it starts to wait the scope of every registered task that has one becomes
\* cancelled, so that while it waits every registered task with a goroutine
\* has its scope cancelled, whatever the other tasks do.
C18_CancelAllBeforeWait ==
  /\ [](op.kind = "ShutdownAll"
          => \A n \in Names : tasks[n].gor # "none" => tasks[n].cancelled)
  /\ [][ (Unlocked /\ op'.kind = "ShutdownAll")
           => /\ op'.elapsed = 0
              /\ \A n \in Names :
                   tasks'[n] = IF tasks[n].hasCancel
                                 THEN [tasks[n] EXCEPT !.cancelled = TRUE]
                                 ELSE tasks[n]
       ]_vars

\* C18 witness: ShutdownAll waits while the bodies of two tasks execute, both
\* with their scope cancelled.
C18_Witness ==
  /\ op.kind = "ShutdownAll"
  /\ \A n \in Names : tasks[n].gor = "body" /\ tasks[n].cancelled

\* ================================================================ ipc: claims

\* C19: a SendIpcEvt that has passed the flag check is never stuck: the
\* package's own goroutines can always take a step that lets it return, also
\* when the queue holds ChanCap events and no consumer is running.
C19_SendNeverStuck ==
  \A p \in Senders : spc[p] = "send" => ENABLED IpcProgram

\* C20: no send is performed on the closed queue; the queue is not closed
\* while a caller is between the flag check and its send; the flag is never
\* true while the queue is closed; and a SendIpcEvt that starts when the flag
\* is false returns the closed error and enqueues nothing.
C20_NoSendOnClosed ==
  /\ [](ipcPanic # "send on closed channel")
  /\ [](chanClosed => ~isChanEnabled)
  /\ [](\A p \in Senders : spc[p] = "send" => ~chanClosed)
  /\ [][ \A p \in Senders :
           (spc[p] = "idle" /\ ~isChanEnabled
              /\ (sres'[p] # sres[p] \/ spc'[p] # spc[p]))
             => /\ sres'[p] = "closed"
                /\ spc'[p] = "idle"
                /\ ipcChan' = ipcChan
       ]_vars

\* C20 witness: the queue is closed, one caller's event was enqueued before,
\* and another caller got the closed error.
C20_Witness ==
  /\ chanClosed
  /\ \E p, q \in Senders : sres[p] = "ok" /\ sres[q] = "closed"

\* C21: every Shutdown event for which SendIpcEvt returned nil is eventually
\* received by the consumer, which sends the termination signal once for it:
\* the accepted events are exactly the ones signalled, in hand or queued, and,
\* the queue being first-in first-out, no accepted event waits forever: again
\* and again either every accepted event has been signalled or the consumer
\* signals one more.  The consumer exits only on a drained queue, and ipc.Run
\* has returned only if the consumer exited.
C21_ShutdownRelay ==
  /\ [](/\ accepted = signals + (IF cons = "handle" THEN 1 ELSE 0) + ipcChan
        /\ (cons = "exited" => ipcChan = 0)
        /\ (runPc = "returned" => cons = "exited"))
  /\ \/ []<>(accepted = signals)
     \/ []<><<ConsHandle>>_vars

\* The relay is cancelled and its queue closed while the consumer is handling
\* an event and more events are queued behind it.
C21_Witness ==
  /\ runPc = "wgwait"
  /\ chanClosed
  /\ cons = "handle"
  /\ ipcChan > 0

\* C22: the relay has one consumer for the life of the process, also when
\* ipc.Run is started, cancelled and started again, and its queue is closed
\* at most once: no consumer is receiving outside a run of ipc.Run, and
\* close is never executed on the queue that an earlier run has closed.
C22_OneConsumerOneClose ==
  /\ (cons \in {"recv", "handle"} => runPc \in {"wait", "lock", "wgwait"})
  /\ ipcPanic # "close of closed channel"

\* s is an initial part of t
IsPrefix(s, t) == Len(s) <= Len(t) /\ SubSeq(t, 1, Len(s)) = s

\* C23: the bytes written to the pty are the payloads of the binary frames
\* received from the connection, joined in receive order and unmodified:
\* between two frames the bytes written are exactly the payloads received,
\* while a frame is in hand they are the payloads received before it, and
\* they are never anything but an initial part of the payloads received.
\* Empty binary frames and text frames add nothing.
C23_InboundVerbatim ==
  /\ IsPrefix(wrote, got)
  /\ pcB = "read" => wrote = got
  /\ pcB = "handle" =>
       got = wrote \o (IF msgB.msgType = "binary" THEN msgB.msg ELSE <<>>)

\* Two binary frames have been received and written, in their order.
C23_Witness ==
  /\ pcB = "read"
  /\ got = <<1, 2>>
  /\ wrote = <<1, 2>>

\* C24: when the inbound pump deals with a text frame, the pty takes the
\* size the frame carries if the frame parsed as JSON with type "resize",
\* cols > 0 and rows > 0, in that one step; for any other text frame the size
\* of the pty stays as it was.
C24_ResizeIffValid ==
  [][ (pcB = "handle" /\ msgB.msgType = "text" /\ pcB' # pcB) =>
        IF /\ msgB.msg.ok
           /\ msgB.msg.MsgType = "resize"
           /\ msgB.msg.Cols > 0
           /\ msgB.msg.Rows > 0
          THEN ptySize' = << msgB.msg.Cols, msgB.msg.Rows >>
          ELSE ptySize' = ptySize ]_vars

\* C25: a text frame that is malformed JSON or carries a type other than
\* "resize" does not end the session: the step that deals with it takes the
\* inbound pump back to reading the next frame, fires no stop signal, and
\* leaves the pty, its size, the child and the connection as they were.
C25_BadControlIgnored ==
  [][ (/\ pcB = "handle"
       /\ msgB.msgType = "text"
       /\ (~msgB.msg.ok \/ msgB.msg.MsgType # "resize")
       /\ pcB' # pcB)
      => /\ pcB' = "read"
         /\ UNCHANGED << stopCloses, onceDone, pty, ptySize, ptyIn, child,
                         killed, conn, hpc, pcA >> ]_vars

\* The inbound pump has just dealt with a malformed text frame and is back at
\* reading, on a session that is live in every part.
C25_Witness ==
  /\ lastB.msgType = "text"
  /\ ~lastB.msg.ok
  /\ pcB = "read"
  /\ stopCloses = 0
  /\ conn = "open"
  /\ pty = "open"
  /\ child = "running"

\* The handler has returned on a failure before the pumps: no child was ever
\* spawned.
FailedEarly == hpc = "returned" /\ child = "none"

\* C26 (as stated): when the upgrade fails the handler returns without
\* spawning a process; when spawning the shell fails exactly one notice frame
\* is sent to the peer, the connection is closed, no pump is started, and no
\* child or pty is left when the handler returns.
C26_ExactlyOneNotice ==
  FailedEarly =>
    /\ pty = "none"
    /\ pcA = "idle" /\ pcB = "idle"
    /\ conn = "none" => wsOut = <<>>
    /\ conn # "none" => (conn = "closed" /\ wsOut = << NoticeFrame >>)

\* C26 (amended): as above, but the notice is best effort: at most one notice
\* frame is sent, and exactly one when the peer is still there to take it.
C26_FailureBeforePumps ==
  FailedEarly =>
    /\ pty = "none"
    /\ pcA = "idle" /\ pcB = "idle"
    /\ stopCloses = 0
    /\ conn = "none" => wsOut = <<>>
    /\ conn # "none" =>
         /\ conn = "closed"
         /\ wsOut \in { <<>>, << NoticeFrame >> }
         /\ peer = "open" => wsOut = << NoticeFrame >>

\* The spawn has failed: the handler has returned, the notice sent and the
\* connection closed.
C26_Witness ==
  /\ FailedEarly
  /\ conn = "closed"
  /\ wsOut = << NoticeFrame >>

\* The number of chunks ptmx.Read has returned: the child writes the chunks
\* 1, 2, ... and ptyOut holds the ones not read yet.
ChunksRead == made - Len(ptyOut)

\* One binary frame for each of the first n chunks, in order
FramesOf(n) == [i \in 1..n |-> BinaryFrame(<< i >>)]

\* C27: the frames the outbound pump has sent are the chunks it has read from
\* the pty, one binary frame for each, in read order and unmodified, the
\* chunk that came with a read error included; only the chunk in hand, or the
\* one whose write failed, is missing.  The pump ends on the first read error
\* or end of file and on the first write that fails or runs into its
\* deadline, and on nothing else; a write fails only on a closed connection
\* or a peer that is gone or does not read, and it never stays blocked,
\* whatever the peer does; on its way out the pump has fired the stop signal.
C27_OutboundVerbatim ==
  /\ [](child # "none" =>
         /\ pcA = "read" => wsOut = FramesOf(ChunksRead)
         /\ pcA = "write" =>
              /\ wsOut = FramesOf(ChunksRead - 1)
              /\ bufA.chunk = << ChunksRead >>
              /\ ENABLED AWrite
         /\ pcA \in {"stop", "close", "done"} =>
              \/ wsOut = FramesOf(ChunksRead)
              \/ ChunksRead > 0 /\ wsOut = FramesOf(ChunksRead - 1)
         /\ pcA \in {"close", "done"} => (onceDone /\ stopCloses = 1))
  /\ [][ /\ (pcA = "read" /\ pcA' # pcA) =>
             /\ pcA' = "stop" <=> (bufA'.rerr /\ bufA'.chunk = <<>>)
             /\ pcA' = "write" <=> bufA'.chunk # <<>>
         /\ (pcA = "write" /\ pcA' # pcA) =>
             /\ wsOut' # wsOut => wsOut' = Append(wsOut, BinaryFrame(bufA.chunk))
             /\ (conn = "open" /\ peer = "open") => wsOut' # wsOut
             /\ pcA' = "stop" <=> (bufA.rerr \/ wsOut' = wsOut)
             /\ pcA' = "read" <=> (~bufA.rerr /\ wsOut' # wsOut) ]_vars

\* The last chunk came together with a read error, was sent as the second
\* frame, and the pump has ended.
C27_Witness ==
  /\ pcA = "done"
  /\ bufA.rerr
  /\ bufA.chunk = << 2 >>
  /\ wsOut = FramesOf(2)

\* C28: on SIGTERM the server waits for the terminal sessions to close: the
\* process has not exited while a TerminalWS session still has a live child
\* shell or a running pump.
C28_WaitsForSessions ==
  mpc = "exited" => ptySessions = 0

\* C29: on SIGTERM the process cleans up its PID file: when the process has
\* exited by way of finalize(), the PID file written at start is gone.
C29_PidFileRemoved ==
  mpc = "exited" => pidFile = "absent"

\* The handlers behind the guard
GuardedHandlers == {"HtmlIndex", "HtmlTerminal", "TerminalWS", "Ping"}

\* A session with a user_id and a last_seen no older than 30 minutes at time t
ValidSession(sess, t) ==
  /\ sess.user_id # "nil"
  /\ sess.last_seen.type = "int64"
  /\ t - sess.last_seen.v <= IdleTimeout

C31_SlidingWindow ==
  [][ (/\ lastAuth > 0
       /\ served'.guard
       /\ served'.status = "/login")
      => now - lastAuth > IdleTimeout ]_vars

\* C32: right after the inbound pump dealt with a resize message whose cols
\* and rows are positive, the size of the pty is exactly the message's cols
\* and rows: neither part is 0 and neither differs from the message's value
\* after the conversion to the 16-bit fields of the window size.
C32_ResizeExact ==
  (/\ lastB.msgType = "text"
   /\ lastB.msg.ok
   /\ lastB.msg.MsgType = "resize"
   /\ lastB.msg.Cols > 0
   /\ lastB.msg.Rows > 0)
  => /\ ptySize[1] # 0
     /\ ptySize[2] # 0
     /\ ptySize = << lastB.msg.Cols, lastB.msg.Rows >>

\* C33: after a Shutdown or RemoveTask of a name has timed out, the task is
\* still registered with its scope cancelled, and stays so while its running
\* flag is set; a Run of that name or a RunAll that follows launches nothing
\* for it; and the same call repeated once the body has returned and its
\* goroutine has decremented the taskUnit's counter returns success, with the
\* running flag cleared (Shutdown) or the entry deleted (RemoveTask).
C33_RetryAfterTimeout ==
  /\ []((ret.kind \in {"Shutdown", "RemoveTask"} /\ ret.res = "timeout")
          => tasks[ret.name].reg /\ tasks[ret.name].cancelled)
  /\ [][ /\ \A n \in Names :
              (tasks[n].cancelled /\ tasks[n].isRun /\ tasks'[n].isRun)
                => tasks'[n].cancelled
         /\ (/\ ret.kind \in {"Shutdown", "RemoveTask"}
             /\ ret.res = "timeout"
             /\ \/ ret'.kind = "RunAll"
                \/ ret'.kind = "Run" /\ ret'.name = ret.name)
              => /\ tasks'[ret.name] = tasks[ret.name]
                 /\ ret'.res = "ok"
         /\ (/\ op.kind \in {"Shutdown", "RemoveTask"}
             /\ op.prev = "timeout"
             /\ op'.kind = "none"
             /\ Counter = 0
             /\ op.elapsed = 0)
              => /\ ret'.res = "ok"
                 /\ op.kind = "Shutdown" => ~tasks'[op.name].isRun
                 /\ op.kind = "RemoveTask" => ~tasks'[op.name].reg
       ]_vars

\* C34: a registered task that has a scope and whose running flag is clear
\* (a Shutdown or ShutdownAll has succeeded for it) is launched again by a Run
\* of its name and by RunAll: exactly one goroutine, counted once in the
\* taskUnit's counter and once in the global one, with a scope that is not
\* cancelled; and a Shutdown of a name returns success only when no goroutine
\* of the registered taskUnit is left, so it waits for the new instance.  This
\* holds at every such step, however many cycles went before.
C34_Restart ==
  /\ [](\A n \in relaunched :
          tasks[n] = [reg |-> TRUE, childWG |-> 1, hasCancel |-> TRUE,
                      cancelled |-> FALSE, isRun |-> TRUE, gor |-> "launched"])
  /\ [][ /\ \A n \in Names :
              (/\ Unlocked
               /\ tasks[n].reg /\ tasks[n].hasCancel /\ ~tasks[n].isRun
               /\ ret' # ret
               /\ \/ ret'.kind = "RunAll"
                  \/ ret'.kind = "Run" /\ ret'.name = n)
                => /\ n \in relaunched'
                   /\ tasks[n].cancelled /\ tasks[n].gor = "none"
                   /\ tasks[n].childWG = 0
                   /\ orphans' = orphans /\ late' = late
                   /\ parentWG' = parentWG
                        + Cardinality({m \in Names : tasks'[m] # tasks[m]})
         /\ (ret'.kind = "Shutdown" /\ ret'.res = "ok" /\ ret' # ret)
              => /\ tasks[ret'.name].gor = "none"
                 /\ tasks[ret'.name].childWG = 0
       ]_vars

\* C34 witness: a task that had been shut down has just been launched again,
\* with a scope that is not cancelled.
C34_Witness ==
  \E n \in relaunched : tasks[n].gor = "launched" /\ ~tasks[n].cancelled

\* The goroutines launched and not finished: those whose body has not
\* returned, of registered taskUnits and of replaced ones, and those that are
\* in their deferred function, before tm.parentWG.Done().
Unfinished ==
  Cardinality({n \in Names : tasks[n].gor # "none"}) + NumOrphans + late

\* C35: in every state the global counter is the number of launched instances
\* that have not finished, those of replaced taskUnits and of a taskUnit that
\* is being removed included; the counter of every taskUnit is 0 or 1, and 1
\* exactly while its instance has not finished; no counter is negative.
C35_Counters ==
  /\ parentWG = Unfinished
  /\ parentWG >= 0
  /\ late >= 0
  /\ \A k \in OrphanKinds : orphans[k] >= 0
  /\ \A n \in Names :
       /\ tasks[n].childWG \in {0, 1}
       /\ tasks[n].childWG = 1 <=> tasks[n].gor # "none"
       /\ ~tasks[n].reg => tasks[n].childWG = 0

\* C35 witness: the global counter is 2 for one body of a replaced taskUnit
\* and one body of the taskUnit that a RemoveTask is waiting for.
C35_Witness ==
  /\ op.kind = "RemoveTask"
  /\ tasks[op.name].gor = "body"
  /\ NumOrphans = 1
  /\ parentWG = 2

\* C36: a ShutdownAll returns success only when no body launched by this
\* TaskManager is left, under a registered taskUnit or under one that AddTask
\* replaced; and a ShutdownAll with a timeout that is not negative, returning
\* while a replaced instance has not ended its body, returns the timeout
\* error and leaves every running flag as it was.
C36_ShutdownAllCountsReplaced ==
  [][ (op.kind = "ShutdownAll" /\ op'.kind = "none")
        => /\ ret'.res = "ok"
                => /\ NumOrphans = 0
                   /\ \A n \in Names : BodiesPending(n) = 0
           /\ NumOrphans > 0
                => /\ op.t >= 0
                   /\ ret'.res = "timeout"
                   /\ \A n \in Names : tasks'[n].isRun = tasks[n].isRun
    ]_vars

\* C36 witness: a ShutdownAll has timed out with no goroutine of a registered
\* taskUnit left: what it waited for is the body of a replaced taskUnit, and
\* the running flag of the registered one is still set.
C36_Witness ==
  /\ ret.kind = "ShutdownAll" /\ ret.res = "timeout"
  /\ NumOrphans > 0
  /\ \A n \in Names : tasks[n].gor = "none"
  /\ \E n \in Names : tasks[n].reg /\ tasks[n].isRun /\ tasks[n].cancelled

\* C37: the end of a task body, by return or by panic, and the rest of its
\* goroutine leave the running flag as it is; a set flag is cleared only by a
\* Shutdown of the name or a ShutdownAll that returns success (or goes with
\* the taskUnit when AddTask replaces it or RemoveTask deletes it); while the
\* flag is set Run and RunAll launch nothing for the name; and a Shutdown of a
\* name whose goroutine has finished returns success with no time passing.
C37_EndedOnItsOwn ==
  [][ /\ \A n \in Names :
           /\ (\/ boundary'.abort # "none"
               \/ tasks'[n].childWG < tasks[n].childWG /\ tasks'[n].hasCancel
               \/ parentWG' < parentWG)
                => tasks'[n].isRun = tasks[n].isRun
           /\ (tasks[n].isRun /\ ~tasks'[n].isRun)
                => \/ /\ ret'.kind = "Shutdown" /\ ret'.name = n
                      /\ ret'.res = "ok"
                   \/ ret'.kind = "ShutdownAll" /\ ret'.res = "ok"
                   \/ tasks'[n] \in {NewUnit, NoUnit}
           /\ (tasks[n].isRun /\ tasks'[n].isRun /\ tasks[n].gor = "none")
                => tasks'[n].gor = "none"
      /\ (op.kind = "Shutdown" /\ op'.kind = "none"
            /\ Counter = 0 /\ op.elapsed = 0)
           => /\ ret'.res = "ok"
              /\ ~tasks'[op.name].isRun
    ]_vars

\* C38: a wait in WaitGroupWithTimeout that ends with the counter at zero
\* ends with success, whatever the timeout, zero included; it ends with the
\* timeout error only if the timeout is not negative, has elapsed, and the
\* counter is not zero.
C38_WaitOutcome ==
  [][ (op.kind # "none" /\ op'.kind = "none")
        => /\ Counter = 0 => ret'.res = "ok"
           /\ ret'.res = "timeout"
                => op.t >= 0 /\ op.elapsed = op.t /\ Counter # 0
    ]_vars

\* C39: the pty is open for as long as the inbound pump has not finished, so
\* every step in which the pump handles a frame, a write or a resize, finds
\* the pty open; and the connection is closed once, in a step of the handler's
\* own routine (conn.Close() of the teardown, or of the failed start, before
\* any pump exists) that finds it open, never in a step of a pump.
C39_PumpNeverOnClosedPty ==
  /\ [](pcB \in {"read", "handle", "stop", "close"} => pty = "open")
  /\ [](hpc = "closeConn" => conn = "open")
  /\ [][ /\ (pcB = "handle" /\ pcB' # pcB) => (pty = "open" /\ pty' = "open")
         /\ pty' # pty
              => \/ pty = "none" /\ pty' = "open" /\ hpc = "spawn"
                 \/ /\ pty = "open" /\ pty' = "closed" /\ hpc = "closePty"
                    /\ done2 /\ pcB = "done"
         /\ conn' # conn
              => \/ conn = "none" /\ conn' = "open" /\ hpc = "upgrade"
                 \/ /\ conn = "open" /\ conn' = "closed"
                    /\ hpc \in {"spawn", "closeConn"} /\ hpc' # hpc
                    /\ pcA' = pcA /\ pcB' = pcB
       ]_vars

\* C39 witness: the pty has been closed after the inbound pump, which had
\* written to it, finished; the connection is closed.
C39_Witness ==
  /\ pty = "closed" /\ conn = "closed"
  /\ pcB = "done" /\ done2
  /\ Len(wrote) > 0

\* C40: a server task that fails at start-up or fails to listen while its
\* context is live queues a Shutdown event in that step; the server's
\* shutdown() queues an event only when its Once fires, and the Once stays
\* fired, so it queues one event, never two; the consumer that takes the event
\* sends the process its termination signal; the main routine leaves its wait
\* only with a signal and then cancels the tasks in ShutdownAll; once the
\* server has failed the process eventually exits; and a process that exits
\* before ShutdownAll's timeout has both tasks returned.
C40_DeadServerEndsProcess ==
  /\ [][ /\ (srv' # srv /\ srv' \in {"failed", "nolisten"} /\ taskCtx = "live")
              => ~relayEvt /\ relayEvt' /\ ~shutdownOnce
         /\ (relayEvt' /\ ~relayEvt) => (~shutdownOnce /\ shutdownOnce')
         /\ shutdownOnce => shutdownOnce'
         /\ (relayEvt /\ ~relayEvt') => sigChan'
         /\ (mpc = "sigwait" /\ mpc' # mpc)
              => sigChan /\ mpc' = "finalize" /\ taskCtx' = "cancelled"
       ]_vars
  /\ (srv \in {"failed", "nolisten"}) ~> (mpc = "exited")
  /\ []((mpc = "exited" /\ clock < ShutdownAllTimeout)
          => srv \in {"returned", "failed"} /\ relay = "returned")

\* C40 witness: server.Run has failed at start-up, its event has been taken by
\* the consumer, which has signalled the process; the main routine is about
\* to receive the signal.
C40_Witness ==
  /\ srv = "failed"
  /\ shutdownOnce /\ ~relayEvt
  /\ sigChan
  /\ mpc = "sigwait" /\ taskCtx = "live"

====
